---------------------------- MODULE Spec2Model ----------------------------
(***************************************************************************)
(* The scoring engine of the achievements report (utils/metrics):          *)
(* row normalisation, pillar totals, mid-rank percentiles, composite       *)
(* scores and the second percentile pass of buildReport.                   *)
(*                                                                         *)
(* Numbers.  A JavaScript number is modelled as an exact fraction <<n, d>> *)
(* in lowest terms with d > 0.  The three non-finite numbers are the       *)
(* fractions with denominator 0: <<0, 0>> is NaN, <<1, 0>> is Infinity and *)
(* <<-1, 0>> is -Infinity.  Rounding of binary floating point is not       *)
(* modelled.                                                               *)
(***************************************************************************)
EXTENDS Integers, Sequences, FiniteSets, TLC

VARIABLES rows, hoursWorkedAvailable, report, probe, result,
          pc, locals, error, fileName, uploads

(* the position of a call of buildReport taken step by step and its        *)
(* consts baseUsers, cohort values, usersWithPercentiles, scoreSorted and  *)
(* usersWithScores, the arrays holding the elements computed so far        *)
callVars == <<pc, locals>>

(* the state of App next to report and hoursWorkedAvailable that           *)
(* handleFileUpload writes, and the calls of it that wait for their file   *)
appVars == <<error, fileName, uploads>>

vars == <<rows, hoursWorkedAvailable, report, probe, result, callVars, appVars>>

-----------------------------------------------------------------------------
(* Bounds *)

MaxUsers == 3
MaxLen == 3
MaxBadgeUsers == 5
MaxStagedUsers == 3
MaxPending == 2
MaxCohort == 3

MaxSeedLen == 3

MaxPool == 5

MaxVal == 2

-----------------------------------------------------------------------------
(* Numbers *)

Abs(n) == IF n < 0 THEN -n ELSE n

Sign(n) == IF n < 0 THEN -1 ELSE IF n > 0 THEN 1 ELSE 0

RECURSIVE GCD(_, _)
GCD(a, b) == IF b = 0 THEN a ELSE GCD(b, a % b)

Norm(n, d) ==
  IF d = 0 THEN <<Sign(n), 0>>
  ELSE LET g == GCD(Abs(n), Abs(d))
           s == IF d < 0 THEN -1 ELSE 1
       IN  <<(s * n) \div g, (s * d) \div g>>

Num(n) == <<n, 1>>

Frac(n, d) == Norm(n, d)

NaN == <<0, 0>>

Infinity == <<1, 0>>

IsNaN(x) == x = NaN

IsFinite(x) == x[2] # 0

Add(a, b) ==
  IF ~IsFinite(a) /\ ~IsFinite(b)
  THEN (IF a = b THEN a ELSE NaN)
  ELSE Norm(a[1] * b[2] + b[1] * a[2], a[2] * b[2])

Neg(a) == <<-a[1], a[2]>>

Sub(a, b) == Add(a, Neg(b))

Mul(a, b) == Norm(a[1] * b[1], a[2] * b[2])

Div(a, b) == Norm(a[1] * b[2], a[2] * b[1])

Lt(a, b) ==
  IF IsNaN(a) \/ IsNaN(b) THEN FALSE
  ELSE IF ~IsFinite(a) /\ ~IsFinite(b) THEN a[1] < b[1]
  ELSE a[1] * b[2] < b[1] * a[2]

Le(a, b) ==
  IF IsNaN(a) \/ IsNaN(b) THEN FALSE
  ELSE IF ~IsFinite(a) /\ ~IsFinite(b) THEN a[1] <= b[1]
  ELSE a[1] * b[2] <= b[1] * a[2]

Ge(a, b) == Le(b, a)

MathMax(a, b) ==
  IF IsNaN(a) \/ IsNaN(b) THEN NaN ELSE IF Lt(a, b) THEN b ELSE a

MathMin(a, b) ==
  IF IsNaN(a) \/ IsNaN(b) THEN NaN ELSE IF Lt(b, a) THEN b ELSE a

(* [...values].sort((a, b) => a - b): a stable insertion sort *)
RECURSIVE Insert(_, _)
Insert(sorted, x) ==
  IF sorted = <<>> THEN <<x>>
  ELSE IF Lt(x, Head(sorted)) THEN <<x>> \o sorted
  ELSE <<Head(sorted)>> \o Insert(Tail(sorted), x)

RECURSIVE SortAsc(_)
SortAsc(values) ==
  IF values = <<>> THEN <<>>
  ELSE Insert(SortAsc(SubSeq(values, 1, Len(values) - 1)), values[Len(values)])


-----------------------------------------------------------------------------
(* Values and strings.  A string is the sequence of its UTF-16 code units. *)
(* A value of type unknown is a number (a fraction, a tuple of length 2),  *)
(* undefined (the empty tuple) or a string (a tuple of length 3 holding    *)
(* the code units in its third place).                                     *)

(* the value of a set with one element: {e : x \in {value}} computes value  *)
(* once and lets e read it as x, as a const declaration does               *)
TheOne(S) == CHOOSE x \in S : TRUE

(* the array built from a rule for its elements: each element is computed  *)
(* once, when the array is built, and read any number of times after       *)
ArrayOf(elements) == <<>> \o elements

JsUndefined == <<>>

JsString(codes) == <<0, 0, codes>>

IsJsNumber(value) == Len(value) = 2

IsJsString(value) == Len(value) = 3

(* row[field]: a missing key reads as undefined *)
CellOf(row, field) == IF field \in DOMAIN row THEN row[field] ELSE JsUndefined

WhiteSpace == {9, 10, 11, 12, 13, 32, 160}

RECURSIVE TrimStart(_)
TrimStart(codes) ==
  IF codes # <<>> /\ Head(codes) \in WhiteSpace THEN TrimStart(Tail(codes))
  ELSE codes

RECURSIVE TrimEnd(_)
TrimEnd(codes) ==
  IF codes # <<>> /\ codes[Len(codes)] \in WhiteSpace
  THEN TrimEnd(SubSeq(codes, 1, Len(codes) - 1))
  ELSE codes

(* String.prototype.trim *)
Trim(codes) == TrimEnd(TrimStart(codes))

IsDigits(codes) == codes # <<>> /\ \A i \in 1..Len(codes) : codes[i] \in 48..57

RECURSIVE DigitsValue(_)
DigitsValue(codes) ==
  IF codes = <<>> THEN 0
  ELSE 10 * DigitsValue(SubSeq(codes, 1, Len(codes) - 1)) + (codes[Len(codes)] - 48)

(* Number(string): blank is 0, a decimal integer literal is its value and  *)
(* any other text is NaN; fractions, exponents, hex literals and           *)
(* "Infinity" are not among the modelled texts                             *)
StringToNumber(codes) ==
  LET t == Trim(codes)
  IN  IF t = <<>> THEN Num(0)
      ELSE IF IsDigits(t) THEN Num(DigitsValue(t))
      ELSE IF Head(t) \in {43, 45} /\ IsDigits(Tail(t))
           THEN Num((IF Head(t) = 45 THEN -1 ELSE 1) * DigitsValue(Tail(t)))
      ELSE NaN

(* Number(value) *)
NumberOf(value) ==
  IF IsJsNumber(value) THEN value
  ELSE IF IsJsString(value) THEN StringToNumber(value[3])
  ELSE NaN

RECURSIVE NatToString(_)
NatToString(n) ==
  IF n < 10 THEN <<48 + n>>
  ELSE NatToString(n \div 10) \o <<48 + (n % 10)>>

(* String(number) for the integers and the non-finite numbers *)
NumberToString(num) ==
  CASE num = NaN -> <<78, 97, 78>>
    [] num = Infinity -> <<73, 110, 102, 105, 110, 105, 116, 121>>
    [] num = Neg(Infinity) -> <<45, 73, 110, 102, 105, 110, 105, 116, 121>>
    [] num[2] = 1 /\ num[1] >= 0 -> NatToString(num[1])
    [] num[2] = 1 /\ num[1] < 0 -> <<45>> \o NatToString(-num[1])

(* String(value ?? '') *)
StringOrEmpty(value) ==
  IF IsJsString(value) THEN value[3]
  ELSE IF IsJsNumber(value) THEN NumberToString(value)
  ELSE <<>>

-----------------------------------------------------------------------------
(* Fixed configuration tables *)

DEFAULT_METRICS ==
  << [key |-> "deconScans", higherBetter |-> TRUE,
      label |->
        <<68, 101, 99, 111, 110, 116, 97, 109, 105, 110, 97, 116, 105, 111,
          110, 32, 83, 99, 97, 110, 115>>],
     [key |-> "sinkInst", higherBetter |-> TRUE,
      label |->
        <<83, 105, 110, 107, 32, 73, 110, 115, 116, 114, 117, 109, 101,
          110, 116, 115>>],
     [key |-> "sinkTrays", higherBetter |-> TRUE,
      label |->
        <<83, 105, 110, 107, 32, 84, 114, 97, 121, 115>>],
     [key |-> "assembledTrays", higherBetter |-> TRUE,
      label |->
        <<65, 115, 115, 101, 109, 98, 108, 101, 100, 32, 84, 114, 97, 121,
          115>>],
     [key |-> "assembledPacks", higherBetter |-> TRUE,
      label |->
        <<65, 115, 115, 101, 109, 98, 108, 101, 100, 32, 80, 101, 101, 108,
          32, 80, 97, 99, 107, 115>>],
     [key |-> "assembledInst", higherBetter |-> TRUE,
      label |->
        <<65, 115, 115, 101, 109, 98, 108, 101, 100, 32, 73, 110, 115, 116,
          114, 117, 109, 101, 110, 116, 115>>],
     [key |-> "workedHoursPerUnit", higherBetter |-> FALSE,
      label |->
        <<87, 111, 114, 107, 101, 100, 32, 72, 111, 117, 114, 115, 32, 47,
          32, 85, 110, 105, 116>>],
     [key |-> "assemblyMissingInst", higherBetter |-> FALSE,
      label |->
        <<77, 105, 115, 115, 105, 110, 103, 32, 73, 110, 115, 116, 114,
          117, 109, 101, 110, 116, 115, 32, 82, 97, 116, 101>>],
     [key |-> "sterilizerLoads", higherBetter |-> TRUE,
      label |->
        <<83, 116, 101, 114, 105, 108, 105, 122, 101, 114, 32, 76, 111, 97,
          100, 115>>],
     [key |-> "itemsSterilized", higherBetter |-> TRUE,
      label |->
        <<73, 116, 101, 109, 115, 32, 83, 116, 101, 114, 105, 108, 105,
          122, 101, 100>>],
     [key |-> "deliverScans", higherBetter |-> TRUE,
      label |->
        <<68, 101, 108, 105, 118, 101, 114, 32, 83, 99, 97, 110, 115>>],
     [key |-> "defectRate", higherBetter |-> FALSE,
      label |->
        <<68, 101, 102, 101, 99, 116, 32, 82, 97, 116, 101>>] >>

METRIC_KEYS == [i \in 1..Len(DEFAULT_METRICS) |-> DEFAULT_METRICS[i].key]

MetricKeySet == {METRIC_KEYS[i] : i \in 1..Len(METRIC_KEYS)}

(* mutant: the orientation of the metric definitions is ignored *)
METRIC_HIGHER_BETTER_AllHigher == [k \in MetricKeySet |-> TRUE]

METRIC_HIGHER_BETTER ==
  [k \in MetricKeySet |->
     (CHOOSE i \in 1..Len(DEFAULT_METRICS) : DEFAULT_METRICS[i].key = k) \in
        {i \in 1..Len(DEFAULT_METRICS) : DEFAULT_METRICS[i].higherBetter}]

PILLAR_KEYS == <<"decon", "assembly", "sterilize">>

PillarKeySet == {"decon", "assembly", "sterilize"}

PILLAR_HIGHER_BETTER == [k \in PillarKeySet |-> TRUE]

scoreKeys == <<"productivity", "quality", "versatility">>

ARCHETYPE_OPTIONS ==
  [decon |->
     <<[label |-> "Biohazard Bouncer",
        description |-> "Nothing dirty gets past them. Ever."],
       [label |-> "Germ Reaper",
        description |-> "Where bioburden goes to die."],
       [label |-> "The Rinse Cycle",
        description |-> "Relentless, methodical, unstoppable."],
       [label |-> "Hazmat Hero",
        description |-> "Calm under pressure, fearless around the gross stuff."],
       [label |-> "Foam & Fury",
        description |-> "Aggressive cleaning, zero mercy."]>>,
   assembly |->
     <<[label |-> "Tray Whisperer",
        description |-> "Knows when something's missing without looking."],
       [label |-> "Count Sheet Assassin",
        description |-> "Precision so clean it is suspicious."],
       [label |-> "The Lego Master",
        description |-> "Everything fits. Every time."],
       [label |-> "Set Architect",
        description |-> "Builds trays like countsheets matter (because they do)."]>>,
   sterilize |->
     <<[label |-> "Cycle Commander",
        description |-> "Parameters locked. Deviations denied."],
       [label |-> "Steam General",
        description |-> "Leads every load like a military op."],
       [label |-> "The Final Boss",
        description |-> "Nothing leaves until it is actually sterile."],
       [label |-> "Pressure Prophet",
        description |-> "Knows a bad cycle before the printout hits."]>>,
   utility |->
     <<[label |-> "Utility Knife",
        description |-> "Plug-and-play anywhere, anytime."],
       [label |-> "Shift Saver",
        description |-> "Everything goes sideways, then they clock in."],
       [label |-> "The Glue",
        description |-> "The department functions because this person exists."],
       [label |-> "Flex Tech",
        description |-> "You move them, performance doesn't drop."]>>]

STRENGTH_TITLES ==
  [quality |->
     <<"Zero-Defect Menace",
       "Quality Over Everything",
       "No Rework, No Regrets",
       "The Auditor's Nightmare">>,
   speed |->
     <<"Tray Machine",
       "Assembly Speedrunner",
       "Throughput Goblin",
       "Blink and You Miss It">>,
   decon |->
     <<"Biofilm Bully",
       "Decon Demon",
       "The Pre-Clean King/Queen",
       "So Fresh, So Clean">>,
   sterilize |->
     <<"Load Perfecter",
       "Steam Certified",
       "Cold Sterile Killer">>,
   multi |->
     <<"Swiss Army Tech",
       "Triple Threat",
       "Department Backbone",
       "All-Terrain Tech">>]

(* the text of the keys and of the fixed parts of the seeds, as code units *)
KeyText ==
  [decon     |-> <<100, 101, 99, 111, 110>>,
   assembly  |-> <<97, 115, 115, 101, 109, 98, 108, 121>>,
   sterilize |-> <<115, 116, 101, 114, 105, 108, 105, 122, 101>>,
   utility   |-> <<117, 116, 105, 108, 105, 116, 121>>,
   quality   |-> <<113, 117, 97, 108, 105, 116, 121>>,
   speed     |-> <<115, 112, 101, 101, 100>>,
   multi     |-> <<109, 117, 108, 116, 105>>]

TechNamePrefix == <<84, 101, 99, 104, 32>>

TechLabelPrefix == <<84, 101, 99, 104, 32, 35>>

Dash == <<45>>

ArchetypeSuffix == <<45, 97, 114, 99, 104, 101, 116, 121, 112, 101>>

StrengthSuffix == <<45, 115, 116, 114, 101, 110, 103, 116, 104>>

archetypeIconMap ==
  [decon     |-> <<240, 376, 167, 189>>,
   assembly  |-> <<240, 376, 8250, 160, 239, 184>>,
   sterilize |-> <<240, 376, 353, 162>>,
   utility   |-> <<240, 376, 167, 169>>]

(* mutant: the pool of strength sentences is empty *)
strengthTemplates_Empty == <<>>

strengthTemplates ==
  <<<<87, 104, 101, 110, 32, 105, 116, 32, 99, 111, 109, 101, 115, 32, 116,
      111, 32, 123, 123, 112, 105, 108, 108, 97, 114, 125, 125, 44, 32,
      121, 111, 117, 39, 114, 101, 32, 111, 112, 101, 114, 97, 116, 105,
      110, 103, 32, 97, 116, 32, 97, 32, 108, 101, 118, 101, 108, 32, 109,
      111, 115, 116, 32, 112, 101, 101, 114, 115, 32, 100, 111, 110, 39,
      116, 32, 114, 101, 97, 99, 104, 46>>,
    <<89, 111, 117, 114, 32, 123, 123, 109, 101, 116, 114, 105, 99, 125,
      125, 32, 112, 117, 116, 115, 32, 121, 111, 117, 32, 105, 110, 32,
      101, 108, 105, 116, 101, 32, 116, 101, 114, 114, 105, 116, 111, 114,
      121, 32, 226, 8364, 8221, 32, 107, 101, 101, 112, 32, 100, 111, 105,
      110, 103, 32, 101, 120, 97, 99, 116, 108, 121, 32, 119, 104, 97, 116,
      32, 121, 111, 117, 32, 97, 114, 101, 32, 100, 111, 105, 110, 103, 46>>>>

growthTemplates ==
  <<<<84, 104, 101, 32, 100, 97, 116, 97, 32, 115, 117, 103, 103, 101, 115,
      116, 115, 32, 123, 123, 109, 101, 116, 114, 105, 99, 125, 125, 32,
      105, 115, 32, 121, 111, 117, 114, 32, 98, 105, 103, 103, 101, 115,
      116, 32, 111, 112, 112, 111, 114, 116, 117, 110, 105, 116, 121, 32,
      226, 8364, 8221, 32, 116, 105, 103, 104, 116, 101, 110, 105, 110,
      103, 32, 116, 104, 105, 115, 32, 117, 112, 32, 119, 111, 117, 108,
      100, 32, 108, 101, 118, 101, 108, 32, 121, 111, 117, 32, 117, 112,
      32, 102, 97, 115, 116, 46>>,
    <<79, 110, 101, 32, 115, 109, 97, 108, 108, 32, 105, 109, 112, 114,
      111, 118, 101, 109, 101, 110, 116, 32, 105, 110, 32, 123, 123, 109,
      101, 116, 114, 105, 99, 125, 125, 32, 99, 111, 117, 108, 100, 32,
      117, 110, 108, 111, 99, 107, 32, 121, 111, 117, 114, 32, 110, 101,
      120, 116, 32, 97, 114, 99, 104, 101, 116, 121, 112, 101, 46>>>>

PillarPlaceholder == <<123, 123, 112, 105, 108, 108, 97, 114, 125, 125>>

MetricPlaceholder == <<123, 123, 109, 101, 116, 114, 105, 99, 125, 125>>

Space == <<32>>

StrengthTemplateSuffix == <<45, 115, 116, 114, 101, 110, 103, 116, 104, 45, 116, 101, 109, 112, 108, 97, 116, 101>>

GrowthTemplateSuffix == <<45, 103, 114, 111, 119, 116, 104, 45, 116, 101, 109, 112, 108, 97, 116, 101>>

metricToPillar(key) ==
  IF key \in {"deconScans", "sinkInst", "sinkTrays"}
    THEN <<68, 101, 99, 111, 110, 116, 97, 109, 105, 110, 97, 116, 105,
           111, 110>>
  ELSE IF key \in {"assembledTrays", "assembledPacks", "assembledInst"}
    THEN <<65, 115, 115, 101, 109, 98, 108, 121>>
  ELSE IF key \in {"sterilizerLoads", "itemsSterilized", "deliverScans"}
    THEN <<83, 116, 101, 114, 105, 108, 105, 122, 97, 116, 105, 111, 110>>
  ELSE IF key \in {"defectRate", "assemblyMissingInst"}
    THEN <<81, 117, 97, 108, 105, 116, 121>>
  ELSE IF key = "workedHoursPerUnit"
    THEN <<69, 102, 102, 105, 99, 105, 101, 110, 99, 121>>
  ELSE <<80, 101, 114, 102, 111, 114, 109, 97, 110, 99, 101>>

StringFields == {"User ID", "User Name"}

REQUIRED_COLUMNS ==
  <<"User ID", "User Name", "NumofEvents", "Defect Rate", "Decon Scans",
    "Sink Inst", "Sink Trays", "Assembled Trays", "Assembled Packs",
    "Assembled Inst", "Assembly Missing Inst", "Sterilizer Loads",
    "Items Sterilized", "Deliver Scans", "Activity Count",
    "Activity Time (Mins)">>

(* all numeric columns of a RawRow *)
RawRowNumericFields ==
  {"Hours Worked", "NumofEvents", "Defect Rate", "Decon Scans", "Sink Inst",
   "Sink Trays", "Assembled Trays", "Assembled Packs", "Assembled Inst",
   "Assembly Missing Inst", "Sterilizer Loads", "Items Sterilized",
   "Deliver Scans", "Activity Count", "Activity Time (Mins)"}

(* the numeric columns of a RawRow that buildReport reads *)
NumericFields ==
  {"Hours Worked", "Activity Time (Mins)", "Defect Rate", "Decon Scans",
   "Sink Inst", "Sink Trays", "Assembled Trays", "Assembled Packs",
   "Assembled Inst", "Assembly Missing Inst", "Sterilizer Loads",
   "Items Sterilized", "Deliver Scans"}

-----------------------------------------------------------------------------
(* Helpers of the engine *)

(* mutant: a finite number is returned without the clamp at 0 *)
toNumber_NoClamp(value) ==
  LET num == NumberOf(value)
  IN  IF ~IsFinite(num) THEN Num(0) ELSE num

toNumber(value) ==
  LET num == NumberOf(value)
  IN  IF ~IsFinite(num) THEN Num(0) ELSE MathMax(Num(0), num)

(* mutant: the denominator is used as it comes *)
safeDiv_NoFloor(numerator, denominator, minDenominator) ==
  Div(numerator, denominator)

safeDiv(numerator, denominator, minDenominator) ==
  LET safe == MathMax(denominator, minDenominator)
  IN  Div(numerator, safe)

(* mutant: no early return for the empty list, (undefined + undefined) / 2 *)
median_NoEmptyCheck(values) ==
  IF Len(values) = 0 THEN NaN
  ELSE LET sorted == SortAsc(values)
           mid == Len(sorted) \div 2
       IN  IF Len(sorted) % 2 = 0
           THEN Div(Add(sorted[mid], sorted[mid + 1]), Num(2))
           ELSE sorted[mid + 1]

(* mutant: an even-sized list yields its lower middle value *)
median_LowerMiddle(values) ==
  IF Len(values) = 0 THEN Num(0)
  ELSE LET sorted == SortAsc(values)
           mid == Len(sorted) \div 2
       IN  IF Len(sorted) % 2 = 0 THEN sorted[mid] ELSE sorted[mid + 1]

median(values) ==
  IF Len(values) = 0 THEN Num(0)
  ELSE LET sorted == SortAsc(values)
           mid == Len(sorted) \div 2
       IN  IF Len(sorted) % 2 = 0
           THEN Div(Add(sorted[mid], sorted[mid + 1]), Num(2))
           ELSE sorted[mid + 1]

(* mutant: the search steps past the values equal to the target *)
lowerBoundBody_Inclusive(values, target, low, high) ==
  LET mid == (low + high) \div 2
  IN  IF Le(values[mid + 1], target) THEN <<mid + 1, high>> ELSE <<low, mid>>

(* one pass through the body of the while loop: the new low and high *)
lowerBoundBody(values, target, low, high) ==
  LET mid == (low + high) \div 2
  IN  IF Lt(values[mid + 1], target) THEN <<mid + 1, high>> ELSE <<low, mid>>

RECURSIVE lowerBoundLoop(_, _, _, _)
lowerBoundLoop(values, target, low, high) ==
  IF low < high
  THEN LET next == lowerBoundBody(values, target, low, high)
       IN  lowerBoundLoop(values, target, next[1], next[2])
  ELSE low

lowerBound(values, target) == lowerBoundLoop(values, target, 0, Len(values))

(* one pass through the body of the while loop: the new low and high *)
upperBoundBody(values, target, low, high) ==
  LET mid == (low + high) \div 2
  IN  IF Le(values[mid + 1], target) THEN <<mid + 1, high>> ELSE <<low, mid>>

RECURSIVE upperBoundLoop(_, _, _, _)
upperBoundLoop(values, target, low, high) ==
  IF low < high
  THEN LET next == upperBoundBody(values, target, low, high)
       IN  upperBoundLoop(values, target, next[1], next[2])
  ELSE low

(* mutant: the search compares with < as lowerBound does *)
upperBound_Strict(values, target) ==
  lowerBoundLoop(values, target, 0, Len(values))

upperBound(values, target) == upperBoundLoop(values, target, 0, Len(values))

(* mutant: the lower-is-better flip is p - 100 and the result is not clamped *)
percentileFromSorted_Unclamped(value, sortedValues, higherBetter) ==
  IF Len(sortedValues) = 0 THEN Num(0)
  ELSE LET lower == lowerBound(sortedValues, value)
           upper == upperBound(sortedValues, value)
           p == Mul(Div(Add(Num(lower), Mul(Frac(1, 2), Num(upper - lower))),
                        Num(Len(sortedValues))),
                    Num(100))
       IN  IF higherBetter THEN p ELSE Sub(p, Num(100))

(* mutant: the share of values strictly below, without the half of the ties *)
percentileFromSorted_BelowOnly(value, sortedValues, higherBetter) ==
  IF Len(sortedValues) = 0 THEN Num(0)
  ELSE LET lower == lowerBound(sortedValues, value)
           p == Mul(Div(Num(lower), Num(Len(sortedValues))), Num(100))
           oriented == IF higherBetter THEN p ELSE Sub(Num(100), p)
       IN  MathMax(Num(0), MathMin(Num(100), oriented))

percentileFromSorted(value, sortedValues, higherBetter) ==
  IF Len(sortedValues) = 0 THEN Num(0)
  ELSE LET lower == lowerBound(sortedValues, value)
           upper == upperBound(sortedValues, value)
           p == Mul(Div(Add(Num(lower), Mul(Frac(1, 2), Num(upper - lower))),
                        Num(Len(sortedValues))),
                    Num(100))
           oriented == IF higherBetter THEN p ELSE Sub(Num(100), p)
       IN  MathMax(Num(0), MathMin(Num(100), oriented))

(* mutant: assembledTrays is added twice and assembledPacks is left out *)
buildPillarTotals_DropsPacks(input) ==
  [decon     |-> Add(Add(input.deconScans, input.sinkInst), input.sinkTrays),
   assembly  |-> Add(Add(input.assembledInst, input.assembledTrays),
                     input.assembledTrays),
   sterilize |-> Add(Add(input.itemsSterilized, input.sterilizerLoads),
                     input.deliverScans)]

buildPillarTotals(input) ==
  [decon     |-> Add(Add(input.deconScans, input.sinkInst), input.sinkTrays),
   assembly  |-> Add(Add(input.assembledInst, input.assembledTrays),
                     input.assembledPacks),
   sterilize |-> Add(Add(input.itemsSterilized, input.sterilizerLoads),
                     input.deliverScans)]

(* mutant: hours per unit of pillar volume instead of volume per hour *)
buildPillarRates_Inverted(totals, hoursWorked) ==
  [decon     |-> safeDiv(hoursWorked, totals.decon, Frac(1, 4)),
   assembly  |-> safeDiv(hoursWorked, totals.assembly, Frac(1, 4)),
   sterilize |-> safeDiv(hoursWorked, totals.sterilize, Frac(1, 4))]

buildPillarRates(totals, hoursWorked) ==
  [decon     |-> safeDiv(totals.decon, hoursWorked, Frac(1, 4)),
   assembly  |-> safeDiv(totals.assembly, hoursWorked, Frac(1, 4)),
   sterilize |-> safeDiv(totals.sterilize, hoursWorked, Frac(1, 4))]

(* items.map((item) => item[key]) *)
Column(items, key) == [i \in 1..Len(items) |-> items[i][key]]

buildMedianMap(items, keys) ==
  [key \in {keys[i] : i \in 1..Len(keys)} |-> median(Column(items, key))]

buildSortedValues(items, keys) ==
  [key \in {keys[i] : i \in 1..Len(keys)} |-> SortAsc(Column(items, key))]

buildPercentiles(values, sorted, higherBetter) ==
  [key \in DOMAIN values |->
     percentileFromSorted(values[key], sorted[key], higherBetter[key])]

(* 32-bit integers are kept as two 16-bit halves <<high, low>> of their     *)
(* two's-complement bit pattern                                            *)
Int32Zero == <<0, 0>>

(* hash << 5 *)
ShiftLeft5(hash) ==
  <<(hash[1] * 32 + hash[2] \div 2048) % 65536, (hash[2] * 32) % 65536>>

(* a - b, then |= 0 *)
Int32Sub(a, b) ==
  LET low == a[2] - b[2]
      borrow == IF low < 0 THEN 1 ELSE 0
  IN  <<(a[1] - b[1] - borrow + 65536) % 65536, (low + 65536) % 65536>>

(* a + b, then |= 0 *)
Int32Add(a, b) ==
  LET low == a[2] + b[2]
  IN  <<(a[1] + b[1] + low \div 65536) % 65536, low % 65536>>

Int32IsNegative(hash) == hash[1] >= 32768

(* Math.abs of a 32-bit integer: a number in 0 .. 2^31, as halves *)
MathAbs(hash) ==
  IF Int32IsNegative(hash) THEN Int32Sub(Int32Zero, hash) ELSE hash

(* mutant: hash * 33 + charCode *)
hashLoop_Times33(value, i, hash) ==
  Int32Add(Int32Add(ShiftLeft5(hash), hash), <<0, value[i]>>)

hashLoop(value, i, hash) ==
  Int32Add(Int32Sub(ShiftLeft5(hash), hash), <<0, value[i]>>)

(* the value of hash after the rounds first..last of the loop, started   *)
(* from hash; each round works on the value the round before left in     *)
(* hash, so the rounds of the second half start from the first half's    *)
RECURSIVE hashRounds(_, _, _, _)
hashRounds(value, first, last, hash) ==
  IF first > last THEN hash
  ELSE IF first = last THEN TheOne({hashLoop(value, first, h) : h \in {hash}})
  ELSE LET middle == (first + last) \div 2
       IN  TheOne({hashRounds(value, middle + 1, last, h) :
                     h \in {hashRounds(value, first, middle, hash)}})

hashAfter(value, n) == hashRounds(value, 1, n, Int32Zero)

hashString(value) ==
  TheOne({TheOne({MathAbs(hash) : hash \in {hashAfter(text, Len(text))}}) :
            text \in {value}})

(* a non-negative number below 2^32 given as halves, modulo a length *)
Remainder(abs, length) == (abs[1] * (65536 % length) + abs[2]) % length

Return(value) == <<"return", value>>

Throw(message) == <<"throw", message>>

pickBySeed(items, seed) ==
  IF Len(items) = 0 THEN Throw("No items available for selection")
  ELSE Return(items[Remainder(hashString(seed), Len(items)) + 1])

coerceRow(row) ==
  [f \in StringFields \cup RawRowNumericFields |->
     IF f \in StringFields THEN JsString(StringOrEmpty(CellOf(row, f)))
     ELSE toNumber(CellOf(row, f))]

-----------------------------------------------------------------------------
(* buildReport *)

(* rows.map((row, index) => ...): one person's metrics and pillar totals *)
BaseUser(row, index) ==
  LET id == StringOrEmpty(CellOf(row, "User ID"))
      trimmed == Trim(StringOrEmpty(CellOf(row, "User Name")))
      name == IF trimmed # <<>> THEN trimmed
              ELSE TechNamePrefix \o NatToString(index)
      timekeepingHours == toNumber(row["Hours Worked"])
      activityTimeMins == toNumber(row["Activity Time (Mins)"])
      hoursWorked == Add(timekeepingHours, Div(activityTimeMins, Num(60)))
      deconScans == toNumber(row["Decon Scans"])
      sinkInst == toNumber(row["Sink Inst"])
      sinkTrays == toNumber(row["Sink Trays"])
      assembledTrays == toNumber(row["Assembled Trays"])
      assembledPacks == toNumber(row["Assembled Packs"])
      assembledInst == toNumber(row["Assembled Inst"])
      sterilizerLoads == toNumber(row["Sterilizer Loads"])
      itemsSterilized == toNumber(row["Items Sterilized"])
      deliverScans == toNumber(row["Deliver Scans"])
      assemblyMissingInst == toNumber(row["Assembly Missing Inst"])
      unitsOfService == Add(Mul(sinkInst, Frac(1, 2)), assembledInst)
      workedHoursPerUnit == safeDiv(hoursWorked, unitsOfService, Num(1))
      missingInstRate == safeDiv(assemblyMissingInst, assembledInst, Num(1))
      pillarTotals ==
        buildPillarTotals([deconScans      |-> deconScans,
                           sinkInst        |-> sinkInst,
                           sinkTrays       |-> sinkTrays,
                           assembledInst   |-> assembledInst,
                           assembledTrays  |-> assembledTrays,
                           assembledPacks  |-> assembledPacks,
                           itemsSterilized |-> itemsSterilized,
                           sterilizerLoads |-> sterilizerLoads,
                           deliverScans    |-> deliverScans])
  IN  [id          |-> id,
       name        |-> name,
       techLabel   |-> TechLabelPrefix \o NatToString(index),
       index       |-> index,
       hoursWorked |-> hoursWorked,
       metrics     |->
         [deconScans          |-> deconScans,
          sinkInst            |-> sinkInst,
          sinkTrays           |-> sinkTrays,
          assembledTrays      |-> assembledTrays,
          assembledPacks      |-> assembledPacks,
          assembledInst       |-> assembledInst,
          workedHoursPerUnit  |-> workedHoursPerUnit,
          assemblyMissingInst |-> missingInstRate,
          sterilizerLoads     |-> sterilizerLoads,
          itemsSterilized     |-> itemsSterilized,
          deliverScans        |-> deliverScans,
          defectRate          |-> toNumber(row["Defect Rate"])],
       pillarTotals |-> pillarTotals]

(* the cohort-wide values computed between the two maps over baseUsers *)
CohortValues(baseUsers) ==
  LET metricValues == Column(baseUsers, "metrics")
      pillarTotalsList == Column(baseUsers, "pillarTotals")
      pillarRatesByUser ==
        [i \in 1..Len(baseUsers) |->
           buildPillarRates(baseUsers[i].pillarTotals, baseUsers[i].hoursWorked)]
  IN  [metricValues           |-> metricValues,
       pillarTotalsList       |-> pillarTotalsList,
       medians                |-> buildMedianMap(metricValues, METRIC_KEYS),
       pillarMedians          |-> buildMedianMap(pillarTotalsList, PILLAR_KEYS),
       sortedMetricValues     |-> buildSortedValues(metricValues, METRIC_KEYS),
       sortedPillarValues     |-> buildSortedValues(pillarTotalsList, PILLAR_KEYS),
       pillarRatesByUser      |-> pillarRatesByUser,
       sortedPillarRateValues |-> buildSortedValues(pillarRatesByUser, PILLAR_KEYS)]

(* mutant: a pillar counts only when strictly above the median *)
pillarsAboveMedianOf_Strict(pillarTotals, pillarMedians) ==
  [decon     |-> Lt(pillarMedians.decon, pillarTotals.decon),
   assembly  |-> Lt(pillarMedians.assembly, pillarTotals.assembly),
   sterilize |-> Lt(pillarMedians.sterilize, pillarTotals.sterilize)]

pillarsAboveMedianOf(pillarTotals, pillarMedians) ==
  [decon     |-> Ge(pillarTotals.decon, pillarMedians.decon),
   assembly  |-> Ge(pillarTotals.assembly, pillarMedians.assembly),
   sterilize |-> Ge(pillarTotals.sterilize, pillarMedians.sterilize)]

pillarCountOf(pillarsAboveMedian) ==
  (IF pillarsAboveMedian.decon THEN 1 ELSE 0) +
  (IF pillarsAboveMedian.assembly THEN 1 ELSE 0) +
  (IF pillarsAboveMedian.sterilize THEN 1 ELSE 0)

(* mutant: the rate percentiles are used whatever the flag says *)
productivityOf_AlwaysRates(available, pillarRatePercentiles, pillarPercentiles) ==
  Div(Add(Add(pillarRatePercentiles.decon, pillarRatePercentiles.assembly),
          pillarRatePercentiles.sterilize),
      Num(3))

productivityOf(available, pillarRatePercentiles, pillarPercentiles) ==
  IF available
  THEN Div(Add(Add(pillarRatePercentiles.decon, pillarRatePercentiles.assembly),
               pillarRatePercentiles.sterilize),
           Num(3))
  ELSE Div(Add(Add(pillarPercentiles.decon, pillarPercentiles.assembly),
               pillarPercentiles.sterilize),
           Num(3))

(* mutant: the two weights are exchanged *)
qualityOf_SwappedWeights(percentiles) ==
  Add(Mul(percentiles.defectRate, Frac(3, 10)),
      Mul(percentiles.assemblyMissingInst, Frac(7, 10)))

qualityOf(percentiles) ==
  Add(Mul(percentiles.defectRate, Frac(7, 10)),
      Mul(percentiles.assemblyMissingInst, Frac(3, 10)))

versatilityOf(pillarCount) == Mul(Div(Num(pillarCount), Num(3)), Num(100))

(* mutant: ordinal ranks, ties ranked in the order of the rows *)
metricPercentilesOf_OrdinalRank(user, index, cohort) ==
  [key \in MetricKeySet |->
     LET sorted == cohort.sortedMetricValues[key]
         lower == lowerBound(sorted, user.metrics[key])
         earlier == Cardinality({j \in 1..index :
                       cohort.metricValues[j][key] = user.metrics[key]})
         p == Mul(Div(Num(lower + earlier), Num(Len(sorted))), Num(100))
         oriented == IF METRIC_HIGHER_BETTER[key] THEN p ELSE Sub(Num(100), p)
     IN  MathMax(Num(0), MathMin(Num(100), oriented))]

(* the metric percentiles of one person against the sorted cohort values *)
metricPercentilesOf(user, index, cohort) ==
  buildPercentiles(user.metrics, cohort.sortedMetricValues, METRIC_HIGHER_BETTER)

(* baseUsers.map((user, index) => ...): first percentile pass and scores *)
UserWithPercentiles(user, index, cohort, available) ==
  LET percentiles == metricPercentilesOf(user, index, cohort)
      pillarPercentiles ==
        buildPercentiles(user.pillarTotals, cohort.sortedPillarValues,
                         PILLAR_HIGHER_BETTER)
      pillarRatePercentiles ==
        buildPercentiles(cohort.pillarRatesByUser[index],
                         cohort.sortedPillarRateValues, PILLAR_HIGHER_BETTER)
      pillarsAboveMedian ==
        pillarsAboveMedianOf(user.pillarTotals, cohort.pillarMedians)
      pillarCount == pillarCountOf(pillarsAboveMedian)
  IN  [id                 |-> user.id,
       name               |-> user.name,
       techLabel          |-> user.techLabel,
       index              |-> user.index,
       hoursWorked        |-> user.hoursWorked,
       metrics            |-> user.metrics,
       pillarTotals       |-> user.pillarTotals,
       percentiles        |-> percentiles,
       pillarPercentiles  |-> pillarPercentiles,
       pillarsAboveMedian |-> pillarsAboveMedian,
       scores |->
         [productivity |->
            productivityOf(available, pillarRatePercentiles, pillarPercentiles),
          quality                |-> qualityOf(percentiles),
          versatility            |-> versatilityOf(pillarCount),
          productivityPercentile |-> Num(0),
          qualityPercentile      |-> Num(0),
          versatilityPercentile  |-> Num(0)]]

scoreSortedOf(usersWithPercentiles) ==
  [key \in {scoreKeys[i] : i \in 1..Len(scoreKeys)} |->
     SortAsc([i \in 1..Len(usersWithPercentiles) |->
                usersWithPercentiles[i].scores[key]])]

contributionsTotalOf(user) ==
  Add(Add(user.pillarTotals.decon, user.pillarTotals.assembly),
      user.pillarTotals.sterilize)

topContributionOf(user) ==
  MathMax(MathMax(user.pillarTotals.decon, user.pillarTotals.assembly),
          user.pillarTotals.sterilize)

(* contributionsTotal ? topContribution / contributionsTotal : 0 *)
topShareOf(user) ==
  LET contributionsTotal == contributionsTotalOf(user)
  IN  IF contributionsTotal # Num(0) /\ ~IsNaN(contributionsTotal)
        THEN Div(topContributionOf(user), contributionsTotal)
        ELSE Num(0)

(* one step of the stable sort by (a, b) => b.value - a.value: the entry   *)
(* goes behind every entry that is not smaller                             *)
RECURSIVE insertByValueDesc(_, _)
insertByValueDesc(sorted, entry) ==
  IF sorted = <<>> THEN <<entry>>
  ELSE IF Lt(Head(sorted).value, entry.value) THEN <<entry>> \o sorted
  ELSE <<Head(sorted)>> \o insertByValueDesc(Tail(sorted), entry)

(* mutant: the sort is ascending *)
RECURSIVE sortByValueDesc_Ascending(_)
sortByValueDesc_Ascending(entries) ==
  IF entries = <<>> THEN <<>>
  ELSE LET rest ==
             sortByValueDesc_Ascending(SubSeq(entries, 1, Len(entries) - 1))
           entry == entries[Len(entries)]
           smaller == {i \in 1..Len(rest) : Le(rest[i].value, entry.value)}
           k == Cardinality(smaller)
       IN  SubSeq(rest, 1, k) \o <<entry>> \o SubSeq(rest, k + 1, Len(rest))

RECURSIVE sortByValueDesc(_)
sortByValueDesc(entries) ==
  IF entries = <<>> THEN <<>>
  ELSE insertByValueDesc(
         sortByValueDesc(SubSeq(entries, 1, Len(entries) - 1)),
         entries[Len(entries)])

(* mutant: the largest total is looked for decon first *)
topPillarOf_DeconFirst(user) ==
  LET topContribution == topContributionOf(user)
  IN  IF topContribution = user.pillarTotals.decon THEN "decon"
      ELSE IF topContribution = user.pillarTotals.assembly THEN "assembly"
      ELSE "sterilize"

(* the last two branches and the initial value of archetypeKey *)
topPillarOf(user) ==
  LET topContribution == topContributionOf(user)
  IN  IF topContribution = user.pillarTotals.assembly THEN "assembly"
      ELSE IF topContribution = user.pillarTotals.sterilize THEN "sterilize"
      ELSE "decon"

(* mutant: the zero-total branch is tried before the utility branch *)
archetypeKeyOf_ZeroTotalFirst(user, pillarCount) ==
  LET contributionsTotal == contributionsTotalOf(user)
      topShare == topShareOf(user)
      pillarPercentiles ==
        <<[key |-> "decon", value |-> user.pillarPercentiles.decon],
          [key |-> "assembly", value |-> user.pillarPercentiles.assembly],
          [key |-> "sterilize", value |-> user.pillarPercentiles.sterilize]>>
  IN  IF contributionsTotal = Num(0)
        THEN sortByValueDesc(pillarPercentiles)[1].key
      ELSE IF Lt(topShare, Frac(2, 5)) /\ pillarCount >= 2 THEN "utility"
      ELSE topPillarOf(user)

archetypeKeyOf(user, pillarCount) ==
  LET contributionsTotal == contributionsTotalOf(user)
      topShare == topShareOf(user)
      pillarPercentiles ==
        <<[key |-> "decon", value |-> user.pillarPercentiles.decon],
          [key |-> "assembly", value |-> user.pillarPercentiles.assembly],
          [key |-> "sterilize", value |-> user.pillarPercentiles.sterilize]>>
  IN  IF Lt(topShare, Frac(2, 5)) /\ pillarCount >= 2 THEN "utility"
      ELSE IF contributionsTotal = Num(0)
        THEN sortByValueDesc(pillarPercentiles)[1].key
      ELSE topPillarOf(user)

(* mutant: among equal percentiles the entry declared last comes first *)
sortByPercentile_LastOnTies(entries, descending) ==
  LET before(j, i) ==
        IF descending THEN Lt(entries[i].percentile, entries[j].percentile)
        ELSE Lt(entries[j].percentile, entries[i].percentile)
      rank(i) ==
        Cardinality({j \in 1..Len(entries) :
                       \/ before(j, i)
                       \/ ~before(i, j) /\ j > i}) + 1
  IN  [k \in 1..Len(entries) |->
         entries[CHOOSE i \in 1..Len(entries) : rank(i) = k]]

(* [...DEFAULT_METRICS].map(...).sort(...): the sort is stable, so an      *)
(* entry is preceded by the entries the comparator puts before it and by   *)
(* the earlier entries the comparator holds equal to it                    *)
sortByPercentile(entries, descending) ==
  LET before(j, i) ==
        IF descending THEN Lt(entries[i].percentile, entries[j].percentile)
        ELSE Lt(entries[j].percentile, entries[i].percentile)
      rank(i) ==
        Cardinality({j \in 1..Len(entries) :
                       \/ before(j, i)
                       \/ ~before(i, j) /\ j < i}) + 1
  IN  [k \in 1..Len(entries) |->
         entries[CHOOSE i \in 1..Len(entries) : rank(i) = k]]

metricEntriesOf(user) ==
  [i \in 1..Len(DEFAULT_METRICS) |->
     [key        |-> DEFAULT_METRICS[i].key,
      label      |-> DEFAULT_METRICS[i].label,
      percentile |-> user.percentiles[DEFAULT_METRICS[i].key]]]

(* the first entry of the descending sort *)
strengthOf(user) ==
  TheOne({sortByPercentile(entries, TRUE)[1] :
            entries \in {metricEntriesOf(user)}})

(* the first entry of the ascending sort *)
opportunityOf(user) ==
  TheOne({sortByPercentile(entries, FALSE)[1] :
            entries \in {metricEntriesOf(user)}})

(* the places where pattern occurs in text *)
OccurrencesOf(text, pattern) ==
  {i \in 1..(Len(text) - Len(pattern) + 1) :
     \A j \in 1..Len(pattern) : text[i + j - 1] = pattern[j]}

(* text.replace(pattern, replacement) for a pattern given as a string: the *)
(* first occurrence is replaced (the replacements here hold no $)          *)
replaceFirst(text, pattern, replacement) ==
  LET found == OccurrencesOf(text, pattern)
  IN  IF found = {} THEN text
      ELSE LET first == CHOOSE i \in found : \A j \in found : i <= j
           IN  SubSeq(text, 1, first - 1) \o replacement \o
                 SubSeq(text, first + Len(pattern), Len(text))

StringReplace(text, pattern, replacement) ==
  TheOne({replaceFirst(receiver, pattern, replacement) : receiver \in {text}})

(* `${user.id || user.techLabel}-${user.name}` *)
userSeedOf(user) ==
  (IF user.id # <<>> THEN user.id ELSE user.techLabel) \o Dash \o user.name

(* mutant: the multi-pillar badge asks for all three pillars *)
eligibleStrengthsOf_AllPillars(user, pillarCount) ==
  (IF Ge(user.percentiles.defectRate, Num(90)) THEN <<"quality">> ELSE <<>>) \o
  (IF Ge(user.percentiles.assembledInst, Num(90)) THEN <<"speed">> ELSE <<>>) \o
  (IF Ge(user.pillarPercentiles.decon, Num(90)) THEN <<"decon">> ELSE <<>>) \o
  (IF Ge(user.pillarPercentiles.sterilize, Num(90))
     THEN <<"sterilize">> ELSE <<>>) \o
  (IF pillarCount >= 3 THEN <<"multi">> ELSE <<>>)

(* mutant: the thresholds are strict *)
eligibleStrengthsOf_Above90(user, pillarCount) ==
  (IF Lt(Num(90), user.percentiles.defectRate) THEN <<"quality">> ELSE <<>>) \o
  (IF Lt(Num(90), user.percentiles.assembledInst) THEN <<"speed">> ELSE <<>>) \o
  (IF Lt(Num(90), user.pillarPercentiles.decon) THEN <<"decon">> ELSE <<>>) \o
  (IF Lt(Num(90), user.pillarPercentiles.sterilize)
     THEN <<"sterilize">> ELSE <<>>) \o
  (IF pillarCount >= 2 THEN <<"multi">> ELSE <<>>)

eligibleStrengthsOf(user, pillarCount) ==
  (IF Ge(user.percentiles.defectRate, Num(90)) THEN <<"quality">> ELSE <<>>) \o
  (IF Ge(user.percentiles.assembledInst, Num(90)) THEN <<"speed">> ELSE <<>>) \o
  (IF Ge(user.pillarPercentiles.decon, Num(90)) THEN <<"decon">> ELSE <<>>) \o
  (IF Ge(user.pillarPercentiles.sterilize, Num(90))
     THEN <<"sterilize">> ELSE <<>>) \o
  (IF pillarCount >= 2 THEN <<"multi">> ELSE <<>>)

(* the body of the second pass below its const declarations *)
scoredUser(user, scoreSorted, pillarCount, archetypePick, badgePicks, strength, opportunity, strengthPillar, strengthLinePick, growthLinePick) ==
  LET scorePercentiles ==
        [productivityPercentile |->
           percentileFromSorted(user.scores.productivity,
                                scoreSorted.productivity, TRUE),
         qualityPercentile |->
           percentileFromSorted(user.scores.quality, scoreSorted.quality, TRUE),
         versatilityPercentile |->
           percentileFromSorted(user.scores.versatility,
                                scoreSorted.versatility, TRUE)]
      archetypeKey == archetypeKeyOf(user, pillarCount)
      archetypeOption == archetypePick[2]
      badges == [i \in 1..Len(badgePicks) |-> badgePicks[i][2]]
      strengthLabel == strength.label
      opportunityLabel == opportunity.label
      strengthLine ==
        StringReplace(
          StringReplace(strengthLinePick[2], PillarPlaceholder, strengthPillar),
          MetricPlaceholder, strengthLabel)
      growthLine ==
        StringReplace(growthLinePick[2], MetricPlaceholder, opportunityLabel)
      coachingSummary == strengthLine \o Space \o growthLine
      picks ==
        <<archetypePick>> \o badgePicks \o <<strengthLinePick, growthLinePick>>
      thrown == {i \in 1..Len(picks) : picks[i][1] = "throw"}
  IN  IF thrown # {}
        THEN picks[CHOOSE i \in thrown : \A j \in thrown : i <= j]
      ELSE Return(
      [id                 |-> user.id,
       name               |-> user.name,
       techLabel          |-> user.techLabel,
       index              |-> user.index,
       hoursWorked        |-> user.hoursWorked,
       metrics            |-> user.metrics,
       pillarTotals       |-> user.pillarTotals,
       percentiles        |-> user.percentiles,
       pillarPercentiles  |-> user.pillarPercentiles,
       pillarsAboveMedian |-> user.pillarsAboveMedian,
       scores             |-> scorePercentiles @@ user.scores,
       archetype |->
         [label       |-> archetypeOption.label,
          description |-> archetypeOption.description,
          icon        |-> archetypeIconMap[archetypeKey]],
       badges          |-> badges,
       strengths       |-> IF strengthLabel # <<>> THEN <<strengthLabel>>
                           ELSE <<>>,
       opportunity     |-> opportunityLabel,
       coachingSummary |-> coachingSummary])

(* usersWithPercentiles.map((user) => ...): second percentile pass; each   *)
(* const of the callback is computed once, in the order of the source      *)
UserWithScores(user, scoreSorted) ==
  TheOne({
    TheOne({
      TheOne({
        scoredUser(user, scoreSorted, pillarCount, archetypePick, badgePicks,
                   strength, opportunity, strengthPillar, strengthLinePick,
                   growthLinePick) :
          archetypePick \in
            {pickBySeed(ARCHETYPE_OPTIONS[archetypeKey],
                        userSeed \o Dash \o KeyText[archetypeKey] \o
                          ArchetypeSuffix)},
          badgePicks \in
            {ArrayOf([i \in 1..Len(eligibleStrengths) |->
                        pickBySeed(STRENGTH_TITLES[eligibleStrengths[i]],
                                   userSeed \o Dash \o
                                     KeyText[eligibleStrengths[i]] \o
                                     StrengthSuffix)])},
          strengthLinePick \in
            {pickBySeed(strengthTemplates,
                        userSeed \o Dash \o strengthPillar \o
                          StrengthTemplateSuffix)},
          growthLinePick \in
            {pickBySeed(growthTemplates,
                        userSeed \o Dash \o opportunity.label \o
                          GrowthTemplateSuffix)}}) :
        archetypeKey \in {archetypeKeyOf(user, pillarCount)},
        eligibleStrengths \in {eligibleStrengthsOf(user, pillarCount)},
        strengthPillar \in {metricToPillar(strength.key)}}) :
      pillarCount \in {pillarCountOf(user.pillarsAboveMedian)},
      userSeed \in {userSeedOf(user)},
      strength \in {strengthOf(user)},
      opportunity \in {opportunityOf(user)}})

(* the tail of buildReport: the first error raised, or the report *)
reportOf(usersWithScores, cohort) ==
  LET thrown ==
        {i \in 1..Len(usersWithScores) : usersWithScores[i][1] = "throw"}
  IN  IF thrown # {}
        THEN usersWithScores[CHOOSE i \in thrown : \A j \in thrown : i <= j]
      ELSE Return(
             [users |->
                [i \in 1..Len(usersWithScores) |-> usersWithScores[i][2]],
              medians       |-> cohort.medians,
              pillarMedians |-> cohort.pillarMedians])

(* the const declarations of buildReport, the last one innermost *)
buildReport(rs, available) ==
  TheOne({
    TheOne({
      TheOne({
        TheOne({
          TheOne({
            reportOf(usersWithScores, cohort) :
              usersWithScores \in
                {ArrayOf([i \in 1..Len(usersWithPercentiles) |->
                           UserWithScores(usersWithPercentiles[i],
                                          scoreSorted)])}}) :
            scoreSorted \in {scoreSortedOf(usersWithPercentiles)}}) :
          usersWithPercentiles \in
            {ArrayOf([index \in 1..Len(baseUsers) |->
                        UserWithPercentiles(baseUsers[index], index, cohort,
                                            available)])}}) :
        cohort \in {CohortValues(baseUsers)}}) :
      baseUsers \in
        {ArrayOf([index \in 1..Len(rs) |-> BaseUser(rs[index], index)])}})

-----------------------------------------------------------------------------
(* The input batch: rows as the ingestion hands them over.  A cell that is *)
(* absent or not numeric converts to NaN under Number(value).              *)

TextAbc == JsString(<<97, 98, 99>>)

TextNA == JsString(<<110, 47, 97>>)

TextTwelve == JsString(<<32, 49, 50, 32>>)

TextMinusFour == JsString(<<45, 52>>)

TextBlank == JsString(<<32, 32>>)

TextPaddedId == JsString(<<32, 65, 49, 50, 32>>)

TextPaddedName == JsString(<<65, 110, 110, 32, 76, 101, 101, 9>>)

TextBo == JsString(<<66, 111>>)

RowOf(cells) ==
  [f \in NumericFields |-> IF f \in DOMAIN cells THEN cells[f] ELSE Num(0)]

ZeroRow == RowOf(<<>>)

(* spec scenario: deconScans=10, hoursWorked=10 *)
RowA ==
  RowOf(("Decon Scans" :> Num(10)) @@ ("Hours Worked" :> Num(10))) @@
    ("User ID" :> TextPaddedId) @@ ("User Name" :> TextPaddedName)

(* spec scenario: all decon counters 0, hoursWorked=10 *)
RowB ==
  RowOf("Hours Worked" :> Num(10)) @@
    ("User ID" :> Num(7)) @@ ("User Name" :> TextBo)

RowC ==
  RowOf(("Sink Inst" :> Num(2)) @@ ("Sink Trays" :> Num(1)) @@
        ("Assembled Trays" :> Num(3)) @@ ("Assembled Packs" :> Num(1)) @@
        ("Activity Time (Mins)" :> Num(30)) @@ ("Defect Rate" :> Frac(1, 50))) @@
    ("User Name" :> TextBlank)

RowD ==
  RowOf(("Assembled Inst" :> Num(4)) @@ ("Assembly Missing Inst" :> Num(2)) @@
        ("Items Sterilized" :> Num(5)) @@ ("Sterilizer Loads" :> Num(1)) @@
        ("Deliver Scans" :> Num(2)) @@ ("Hours Worked" :> Num(2)))

(* spec scenario: assembledInst=0, assemblyMissingInst=3 *)
RowE ==
  RowOf(("Assembly Missing Inst" :> Num(3)) @@ ("Defect Rate" :> Frac(1, 20)) @@
        ("Decon Scans" :> Num(5)) @@ ("Hours Worked" :> Num(1)))

(* cells that are negative, not numeric or not finite *)
RowF ==
  RowOf(("Decon Scans" :> Num(-4)) @@ ("Sink Inst" :> NaN) @@
        ("Assembled Packs" :> Infinity) @@ ("Deliver Scans" :> Num(7)) @@
        ("Activity Time (Mins)" :> Num(15)) @@ ("Hours Worked" :> NaN))

(* work in all three pillars *)
RowG ==
  RowOf(("Decon Scans" :> Num(5)) @@ ("Sink Trays" :> Num(5)) @@
        ("Assembled Inst" :> Num(6)) @@ ("Sterilizer Loads" :> Num(3)) @@
        ("Items Sterilized" :> Num(8)) @@ ("Hours Worked" :> Num(8)) @@
        ("Defect Rate" :> Frac(1, 100)))

(* the same work in each pillar *)
RowH ==
  RowOf(("Decon Scans" :> Num(3)) @@ ("Assembled Trays" :> Num(3)) @@
        ("Deliver Scans" :> Num(3)) @@ ("Hours Worked" :> Num(3)))

(* decon and sterilize work only, the same in both *)
RowI ==
  RowOf(("Decon Scans" :> Num(4)) @@ ("Items Sterilized" :> Num(4)) @@
        ("Hours Worked" :> Num(4)))

RowPool == {ZeroRow, RowA, RowB, RowC, RowD, RowE, RowF, RowG, RowH, RowI}

Null == <<>>

Some(x) == <<x>>

-----------------------------------------------------------------------------
(* Arguments of a direct call of percentileFromSorted *)

ValueRange == {Num(v) : v \in 0..MaxVal}

ProbeValues == {Num(v) : v \in (0 - 1)..(MaxVal + 1)} \cup {Frac(1, 2)}

IsAscending(values) ==
  \A i \in 1..(Len(values) - 1) : Le(values[i], values[i + 1])

SortedSeqs ==
  UNION {{q \in [1..n -> ValueRange] : IsAscending(q)} : n \in 0..MaxLen}

-----------------------------------------------------------------------------
(* Specification of the report engine *)

(* what a call leaves behind: the value it returns, or the error it raises *)
Outcome(completion) ==
  IF completion[1] = "return" THEN Some(completion[2]) ELSE completion

(* no call of buildReport is being taken step by step *)
NoLocals ==
  [baseUsers            |-> <<>>,
   cohort               |-> Null,
   usersWithPercentiles |-> <<>>,
   scoreSorted          |-> Null,
   usersWithScores      |-> <<>>]

NoCall == pc = "idle" /\ locals = NoLocals

(* App before any file was chosen *)
NoUpload ==
  /\ error = Null
  /\ fileName = ""
  /\ uploads = <<>>

Init ==
  /\ rows = <<>>
  /\ hoursWorkedAvailable = TRUE
  /\ report = Null
  /\ probe = Null
  /\ result = Null
  /\ NoCall
  /\ NoUpload

(* one more row joins the rows handed to buildReport *)
LoadRow ==
  /\ report = Null
  /\ Len(rows) < MaxUsers
  /\ \E r \in RowPool : rows' = Append(rows, r)
  /\ UNCHANGED <<hoursWorkedAvailable, report, probe, result>>
  /\ UNCHANGED <<callVars, appVars>>

BuildReport ==
  /\ report = Null
  /\ \E available \in BOOLEAN :
       /\ hoursWorkedAvailable' = available
       /\ \E completion \in {buildReport(rows, available)} :
            report' = Outcome(completion)
  /\ UNCHANGED <<rows, probe, result>>
  /\ UNCHANGED <<callVars, appVars>>

Next == LoadRow \/ BuildReport

Spec == Init /\ [][Next]_vars

(* Specification of direct calls of percentileFromSorted *)

(* Specification of cohorts large enough for a percentile of 90 *)

BadgePool == {ZeroRow, RowC, RowD, RowG}

BadgeLoadRow ==
  /\ report = Null
  /\ Len(rows) < MaxBadgeUsers
  /\ \E r \in BadgePool : rows' = Append(rows, r)
  /\ UNCHANGED <<hoursWorkedAvailable, report, probe, result>>
  /\ UNCHANGED <<callVars, appVars>>

BadgeNext == BadgeLoadRow \/ BuildReport

BadgeSpec == Init /\ [][BadgeNext]_vars

(* Specification of one call of buildReport taken a step at a time: each  *)
(* call of a map callback is a step, and so is each statement between     *)
(* the maps.  Array.prototype.map calls its callback for the elements in   *)
(* ascending order; here the calls of one map may come in any order, of    *)
(* which the ascending one is one.                                         *)

StagedPool == {ZeroRow, RowA, RowH}

(* mutant: the callback is handed the number of calls made so far *)
mapIndex_CallCount(i, done) == Cardinality(DOMAIN done) + 1

(* the index map hands to its callback with element i *)
mapIndex(i, done) == i

(* the elements computed so far, in the order of their indices *)
ElementsOf(done) ==
  ArrayOf([k \in 1..Cardinality(DOMAIN done) |->
             done[CHOOSE i \in DOMAIN done :
                    Cardinality({j \in DOMAIN done : j < i}) = k - 1]])

(* mutant: the statement after a map does not wait for the map *)
mapReturned_Early(done, array) == TRUE

(* map returns, and the statement after it runs, once the callback has     *)
(* been called for every element of the array                              *)
mapReturned(done, array) == DOMAIN done = 1..Len(array)

StagedLoadRow ==
  /\ pc = "idle"
  /\ report = Null
  /\ Len(rows) < MaxStagedUsers
  /\ \E r \in StagedPool : rows' = Append(rows, r)
  /\ UNCHANGED <<hoursWorkedAvailable, report, probe, result>>
  /\ UNCHANGED <<callVars, appVars>>

(* buildReport(rows, { hoursWorkedAvailable }) is entered *)
CallBuildReport ==
  /\ pc = "idle"
  /\ report = Null
  /\ \E available \in BOOLEAN : hoursWorkedAvailable' = available
  /\ pc' = "baseUsers"
  /\ UNCHANGED <<rows, report, probe, result, locals, appVars>>

(* one call of the callback of rows.map *)
MapBaseUser ==
  /\ pc = "baseUsers"
  /\ \E i \in (1..Len(rows)) \ DOMAIN locals.baseUsers :
       \E user \in {BaseUser(rows[i], mapIndex(i, locals.baseUsers))} :
         locals' = [locals EXCEPT !.baseUsers = (i :> user) @@ @]
  /\ UNCHANGED <<rows, hoursWorkedAvailable, report, probe, result, pc, appVars>>

(* the statements between rows.map and baseUsers.map *)
ComputeCohort ==
  /\ pc = "baseUsers"
  /\ mapReturned(locals.baseUsers, rows)
  /\ \E values \in {CohortValues(ElementsOf(locals.baseUsers))} :
       locals' = [locals EXCEPT !.cohort = Some(values)]
  /\ pc' = "usersWithPercentiles"
  /\ UNCHANGED <<rows, hoursWorkedAvailable, report, probe, result, appVars>>

(* one call of the callback of baseUsers.map *)
MapPercentiles ==
  /\ pc = "usersWithPercentiles"
  /\ \E i \in DOMAIN locals.baseUsers \ DOMAIN locals.usersWithPercentiles :
       \E user \in {UserWithPercentiles(
                       locals.baseUsers[i],
                       mapIndex(i, locals.usersWithPercentiles),
                       locals.cohort[1], hoursWorkedAvailable)} :
         locals' = [locals EXCEPT !.usersWithPercentiles = (i :> user) @@ @]
  /\ UNCHANGED <<rows, hoursWorkedAvailable, report, probe, result, pc, appVars>>

(* the statements between baseUsers.map and usersWithPercentiles.map *)
ComputeScoreSorted ==
  /\ pc = "usersWithPercentiles"
  /\ mapReturned(locals.usersWithPercentiles, rows)
  /\ \E sorted \in {scoreSortedOf(ElementsOf(locals.usersWithPercentiles))} :
       locals' = [locals EXCEPT !.scoreSorted = Some(sorted)]
  /\ pc' = "usersWithScores"
  /\ UNCHANGED <<rows, hoursWorkedAvailable, report, probe, result, appVars>>

(* one call of the callback of usersWithPercentiles.map; an error raised   *)
(* in it ends the call of buildReport                                      *)
MapScores ==
  /\ pc = "usersWithScores"
  /\ \E i \in DOMAIN locals.usersWithPercentiles \
                 DOMAIN locals.usersWithScores :
       \E completion \in {UserWithScores(locals.usersWithPercentiles[i],
                                          locals.scoreSorted[1])} :
         IF completion[1] = "throw"
           THEN /\ report' = completion
                /\ pc' = "done"
                /\ UNCHANGED locals
         ELSE /\ locals' = [locals EXCEPT
                              !.usersWithScores = (i :> completion[2]) @@ @]
              /\ UNCHANGED <<report, pc>>
  /\ UNCHANGED <<rows, hoursWorkedAvailable, probe, result, appVars>>

(* the return statement of buildReport *)
ReturnReport ==
  /\ pc = "usersWithScores"
  /\ mapReturned(locals.usersWithScores, rows)
  /\ report' = Some([users         |-> ElementsOf(locals.usersWithScores),
                     medians       |-> locals.cohort[1].medians,
                     pillarMedians |-> locals.cohort[1].pillarMedians])
  /\ pc' = "done"
  /\ UNCHANGED <<rows, hoursWorkedAvailable, probe, result, locals, appVars>>

StagedNext ==
  \/ StagedLoadRow
  \/ CallBuildReport
  \/ MapBaseUser
  \/ ComputeCohort
  \/ MapPercentiles
  \/ ComputeScoreSorted
  \/ MapScores
  \/ ReturnReport

StagedSpec == Init /\ [][StagedNext]_vars

(* Numbers as the program holds them: IEEE 754 binary64.  A finite number  *)
(* is a sign, a significand and an exponent, value = Nat(bits) * 2^exp,    *)
(* negated when neg: bits lists the significand lowest bit first, its      *)
(* first and last bit are 1 and there are at most Precision of them; zero  *)
(* has no bits.  The operators round to nearest, ties to even.             *)

Precision == 53

Zeros(k) == ArrayOf([i \in 1..k |-> 0])

RECURSIVE BitsOf(_)
BitsOf(n) == IF n = 0 THEN <<>> ELSE <<n % 2>> \o BitsOf(n \div 2)

(* bits without its high zeros *)
StripHigh(bits) ==
  LET ones == {i \in 1..Len(bits) : bits[i] = 1}
  IN  IF ones = {} THEN <<>>
      ELSE SubSeq(bits, 1, CHOOSE i \in ones : \A j \in ones : j <= i)

BitAt(bits, i) == IF i <= Len(bits) THEN bits[i] ELSE 0

(* Step(last, ... Step(first, state)), the range halved at each level *)
RECURSIVE FoldRange(_, _, _, _)
FoldRange(Step(_, _), first, last, state) ==
  IF first > last THEN state
  ELSE IF first = last THEN TheOne({Step(first, s) : s \in {state}})
  ELSE LET middle == (first + last) \div 2
       IN  TheOne({FoldRange(Step, middle + 1, last, s) :
                     s \in {FoldRange(Step, first, middle, state)}})

(* state: the bits written and the carry *)
AddStep(a, b, i, state) ==
  LET t == BitAt(a, i) + BitAt(b, i) + state[2]
  IN  <<Append(state[1], t % 2), t \div 2>>

AddBits(a, b, carry) ==
  LET length == IF Len(a) > Len(b) THEN Len(a) ELSE Len(b)
      added == FoldRange(LAMBDA i, state : AddStep(a, b, i, state),
                         1, length, <<<<>>, carry>>)
  IN  added[1] \o BitsOf(added[2])

(* state: the bits written and the borrow *)
SubStep(a, b, i, state) ==
  LET t == BitAt(a, i) - BitAt(b, i) - state[2]
  IN  <<Append(state[1], t % 2), IF t < 0 THEN 1 ELSE 0>>

(* a - b - borrow for a >= b + borrow *)
SubBits(a, b, borrow) ==
  FoldRange(LAMBDA i, state : SubStep(a, b, i, state),
            1, Len(a), <<<<>>, borrow>>)[1]

MulStep(a, b, i, product) ==
  IF b[i] = 1 THEN AddBits(product, Zeros(i - 1) \o a, 0) ELSE product

MulBits(a, b) ==
  FoldRange(LAMBDA i, product : MulStep(a, b, i, product), 1, Len(b), <<>>)

(* a >= b, for a and b without high zeros *)
GeBits(a, b) ==
  IF Len(a) # Len(b) THEN Len(a) > Len(b)
  ELSE LET differing == {i \in 1..Len(a) : a[i] # b[i]}
       IN  differing = {} \/
           a[CHOOSE i \in differing : \A j \in differing : j <= i] = 1

(* one step of the long division, at bit i of the numerator; state: the    *)
(* quotient and the remainder                                              *)
DivStep(numerator, denominator, i, state) ==
  LET shifted == StripHigh(<<numerator[i]>> \o state[2])
      fits == GeBits(shifted, denominator)
  IN  <<<<IF fits THEN 1 ELSE 0>> \o state[1],
        IF fits THEN StripHigh(SubBits(shifted, denominator, 0))
        ELSE shifted>>

(* long division, highest bit of the numerator first: the quotient and the *)
(* remainder                                                               *)
DivBits(numerator, denominator) ==
  FoldRange(LAMBDA k, state :
              DivStep(numerator, denominator, Len(numerator) + 1 - k, state),
            1, Len(numerator), <<<<>>, <<>>>>)

LowZeros(bits) ==
  IF bits = <<>> THEN 0
  ELSE (CHOOSE i \in 1..Len(bits) :
          bits[i] = 1 /\ \A j \in 1..(i - 1) : bits[j] = 0) - 1

(* the number Nat(bits) * 2^exp in its one representation *)
Canonical(neg, bits, exp) ==
  LET high == StripHigh(bits)
      low == LowZeros(high)
  IN  IF high = <<>> THEN [neg |-> FALSE, bits |-> <<>>, exp |-> 0]
      ELSE [neg |-> neg, bits |-> SubSeq(high, low + 1, Len(high)),
            exp |-> exp + low]

(* the binary64 nearest to Nat(bits) * 2^exp, plus a part below the lowest *)
(* bit when inexact; of two nearest the one whose significand is even      *)
Round64(neg, bits, exp, inexact) ==
  LET high == StripHigh(bits)
      dropped == Len(high) - Precision
  IN  IF dropped <= 0 THEN Canonical(neg, high, exp)
      ELSE LET kept == SubSeq(high, dropped + 1, Len(high))
               below == inexact \/ \E i \in 1..(dropped - 1) : high[i] = 1
               up == high[dropped] = 1 /\ (below \/ kept[1] = 1)
           IN  Canonical(neg, IF up THEN AddBits(kept, <<1>>, 0) ELSE kept,
                         exp + dropped)

Double(n) == Canonical(FALSE, BitsOf(n), 0)

Half64 == [neg |-> FALSE, bits |-> <<1>>, exp |-> 0 - 1]

(* the significand of x when the lowest bit counts 2^exp *)
AlignedBits(x, exp) ==
  IF x.bits = <<>> THEN <<>> ELSE Zeros(x.exp - exp) \o x.bits

MinExp(x, y) ==
  IF x.bits = <<>> THEN y.exp
  ELSE IF y.bits = <<>> THEN x.exp
  ELSE IF x.exp < y.exp THEN x.exp ELSE y.exp

(* x + y of any two finite numbers, not rounded *)
ExactSum(x, y) ==
  LET exp == MinExp(x, y)
      a == AlignedBits(x, exp)
      b == AlignedBits(y, exp)
  IN  IF x.neg = y.neg THEN Canonical(x.neg, AddBits(a, b, 0), exp)
      ELSE IF GeBits(a, b) THEN Canonical(x.neg, SubBits(a, b, 0), exp)
      ELSE Canonical(y.neg, SubBits(b, a, 0), exp)

Negated(x) == IF x.bits = <<>> THEN x ELSE [x EXCEPT !.neg = ~x.neg]

Add64(x, y) ==
  LET sum == ExactSum(x, y) IN Round64(sum.neg, sum.bits, sum.exp, FALSE)

Sub64(x, y) == Add64(x, Negated(y))

Mul64(x, y) ==
  Round64(x.neg # y.neg, MulBits(x.bits, y.bits), x.exp + y.exp, FALSE)

(* x / y for y # 0: the quotient is carried to more than Precision + 1     *)
(* bits before it is rounded                                               *)
Div64(x, y) ==
  IF x.bits = <<>> THEN x
  ELSE LET extra == Precision + 2 + Len(y.bits)
           numerator == Zeros(extra) \o x.bits
           division == DivBits(numerator, y.bits)
       IN  Round64(x.neg # y.neg, division[1], x.exp - y.exp - extra,
                   division[2] # <<>>)

Lt64(x, y) == ExactSum(x, Negated(y)).neg

MathMax64(a, b) == IF Lt64(a, b) THEN b ELSE a

MathMin64(a, b) == IF Lt64(b, a) THEN b ELSE a

(* The percentiles and the productivity and quality scores as buildReport  *)
(* computes them, in binary64.  A member of the cohort holds the two       *)
(* metrics of the quality score and the three pillar rates; a percentile   *)
(* depends on the values only through their order, so small whole numbers  *)
(* stand for them.                                                         *)

(* mutant: only the values strictly below count *)
percentileFromSorted64_BelowOnly(value, sortedValues, higherBetter) ==
  IF Len(sortedValues) = 0 THEN Double(0)
  ELSE LET lower == lowerBound(sortedValues, value)
           p == Mul64(Div64(Double(lower), Double(Len(sortedValues))),
                      Double(100))
           oriented == IF higherBetter THEN p ELSE Sub64(Double(100), p)
       IN  MathMax64(Double(0), MathMin64(Double(100), oriented))

percentileFromSorted64(value, sortedValues, higherBetter) ==
  IF Len(sortedValues) = 0 THEN Double(0)
  ELSE LET lower == lowerBound(sortedValues, value)
           upper == upperBound(sortedValues, value)
           p == Mul64(Div64(Add64(Double(lower),
                                  Mul64(Half64, Double(upper - lower))),
                            Double(Len(sortedValues))),
                      Double(100))
           oriented == IF higherBetter THEN p ELSE Sub64(Double(100), p)
       IN  MathMax64(Double(0), MathMin64(Double(100), oriented))

(* the literals 0.7 and 0.3: the binary64 nearest to the decimal *)
Point7 == Div64(Double(7), Double(10))

Point3 == Div64(Double(3), Double(10))

CohortMember(defectRate, assemblyMissingInst, decon, assembly, sterilize) ==
  [metrics |-> [defectRate |-> Num(defectRate),
                assemblyMissingInst |-> Num(assemblyMissingInst)],
   pillarRates |-> [decon |-> Num(decon), assembly |-> Num(assembly),
                    sterilize |-> Num(sterilize)]]

CohortPool ==
  {CohortMember(0, 0, 0, 0, 0), CohortMember(1, 0, 1, 2, 0),
   CohortMember(1, 2, 1, 0, 3), CohortMember(0, 1, 2, 1, 1)}

Cohorts == UNION {[1..n -> CohortPool] : n \in 1..MaxCohort}

sortedValuesOf(cohort, group, key) ==
  SortAsc(ArrayOf([i \in 1..Len(cohort) |-> cohort[i][group][key]]))

(* the percentiles of one member and the scores built from them *)
userWithPercentiles64(user, cohort) ==
  LET percentile(group, key, higherBetter) ==
        percentileFromSorted64(user[group][key],
                               sortedValuesOf(cohort, group, key),
                               higherBetter[key])
      percentiles ==
        [defectRate |->
           percentile("metrics", "defectRate", METRIC_HIGHER_BETTER),
         assemblyMissingInst |->
           percentile("metrics", "assemblyMissingInst", METRIC_HIGHER_BETTER)]
      pillarRatePercentiles ==
        [decon |-> percentile("pillarRates", "decon", PILLAR_HIGHER_BETTER),
         assembly |->
           percentile("pillarRates", "assembly", PILLAR_HIGHER_BETTER),
         sterilize |->
           percentile("pillarRates", "sterilize", PILLAR_HIGHER_BETTER)]
  IN  TheOne({[percentiles |-> ps, pillarRatePercentiles |-> rs,
               scores |->
                 [productivity |->
                    Div64(Add64(Add64(rs.decon, rs.assembly), rs.sterilize),
                          Double(3)),
                  quality |->
                    Add64(Mul64(ps.defectRate, Point7),
                          Mul64(ps.assemblyMissingInst, Point3))]] :
                ps \in {percentiles}, rs \in {pillarRatePercentiles}})

DoubleInit ==
  /\ rows = <<>>
  /\ hoursWorkedAvailable = TRUE
  /\ report = Null
  /\ probe \in {Some(ArrayOf(cohort)) : cohort \in Cohorts}
  /\ result = Some(<<>>)
  /\ NoCall
  /\ NoUpload

(* the callback of usersWithPercentiles for the next member of the cohort *)
ScoreMember ==
  /\ Len(result[1]) < Len(probe[1])
  /\ \E scored \in
         {userWithPercentiles64(probe[1][Len(result[1]) + 1], probe[1])} :
       result' = Some(Append(result[1], scored))
  /\ UNCHANGED <<rows, hoursWorkedAvailable, report, probe>>
  /\ UNCHANGED <<callVars, appVars>>

DoubleNext == ScoreMember

DoubleSpec == DoubleInit /\ [][DoubleNext]_vars

(* Specification of App's file uploads.  A call of handleFileUpload sets   *)
(* error and fileName, waits for file.arrayBuffer() and goes on when the   *)
(* bytes are there; calls made meanwhile are in uploads with their file.   *)
(* Of App's state the reporting period and the selection are left out.     *)

RequiredColumnSet == {REQUIRED_COLUMNS[i] : i \in 1..Len(REQUIRED_COLUMNS)}

(* a row of XLSX.utils.sheet_to_json(sheet, { defval: 0 }): one key per     *)
(* column of the sheet, 0 where the cell is empty                          *)
SheetRow(columns, cells) ==
  [c \in columns |-> IF c \in DOMAIN cells THEN cells[c] ELSE Num(0)]

(* the files the user picks from: the name, and the rows of the first      *)
(* sheet, or nothing when the bytes are not a workbook                     *)
NightShiftFile ==
  [name |-> "night.xlsx",
   sheet |->
     Some(<<SheetRow(RequiredColumnSet \cup {"Hours Worked"},
                     ("User ID" :> TextPaddedId) @@ ("User Name" :> TextBo) @@
                     ("Decon Scans" :> Num(10)) @@ ("Hours Worked" :> Num(10))),
            SheetRow(RequiredColumnSet \cup {"Hours Worked"},
                     ("Assembled Trays" :> Num(3)) @@
                     ("Deliver Scans" :> TextTwelve) @@
                     ("Hours Worked" :> Num(5)))>>)]

DayShiftFile ==
  [name |-> "day.xlsx",
   sheet |->
     Some(<<SheetRow(RequiredColumnSet,
                     ("User Name" :> TextBo) @@ ("Items Sterilized" :> Num(4)) @@
                     ("Activity Time (Mins)" :> Num(120)))>>)]

EmptyFile == [name |-> "empty.xlsx", sheet |-> Some(<<>>)]

PartialFile ==
  [name |-> "partial.xlsx",
   sheet |->
     Some(<<SheetRow((RequiredColumnSet \ {"Deliver Scans", "Activity Count"})
                       \cup {"Hours Worked"},
                     "Decon Scans" :> Num(2))>>)]

BrokenFile == [name |-> "broken.txt", sheet |-> Null]

Files == {NightShiftFile, DayShiftFile, EmptyFile, PartialFile, BrokenFile}

UnreadableError ==
  "Unable to read the spreadsheet. Please confirm it is a valid .xlsx file."

NoRowsError == "No data rows found in the workbook."

(* the message and the column names that join(', ') puts after it *)
MissingColumnsError(missing) == <<"Missing required columns: ", missing>>

(* what the part of handleFileUpload after the await sets: error (or that  *)
(* it is left alone), report and hoursWorkedAvailable                      *)
uploadOutcome(file) ==
  IF file.sheet = Null
    THEN [error |-> Some(UnreadableError), report |-> Null,
          hoursWorkedAvailable |-> TRUE]
  ELSE LET sheetRows == file.sheet[1]
       IN  IF Len(sheetRows) = 0
             THEN [error |-> Some(NoRowsError), report |-> Null,
                   hoursWorkedAvailable |-> TRUE]
           ELSE LET hasHoursWorked == "Hours Worked" \in DOMAIN sheetRows[1]
                    missing ==
                      SelectSeq(REQUIRED_COLUMNS,
                                LAMBDA column : column \notin DOMAIN sheetRows[1])
                    coerced ==
                      ArrayOf([i \in 1..Len(sheetRows) |->
                                 coerceRow(sheetRows[i])])
                    built == TheOne({completion :
                               completion \in
                                 {buildReport(coerced, hasHoursWorked)}})
                IN  IF Len(missing) > 0
                      THEN [error |-> Some(MissingColumnsError(missing)),
                            report |-> Null,
                            hoursWorkedAvailable |-> hasHoursWorked]
                    ELSE IF built[1] = "throw"
                      THEN [error |-> Some(UnreadableError), report |-> Null,
                            hoursWorkedAvailable |-> TRUE]
                    ELSE [error |-> Null, report |-> Some(built[2]),
                          hoursWorkedAvailable |-> hasHoursWorked]

(* handleFileUpload(file) up to the await *)
StartUpload ==
  /\ Len(uploads) < MaxPending
  /\ \E file \in Files :
       /\ error' = Null
       /\ fileName' = file.name
       /\ uploads' = Append(uploads, file)
  /\ UNCHANGED <<rows, hoursWorkedAvailable, report, probe, result, callVars>>

(* the bytes of one waiting call's file are there and the call runs on to  *)
(* its end                                                                 *)
FinishUpload ==
  /\ \E k \in 1..Len(uploads) :
       \E outcome \in {uploadOutcome(uploads[k])} :
         /\ error' = IF outcome.error = Null THEN error ELSE outcome.error
         /\ report' = outcome.report
         /\ hoursWorkedAvailable' = outcome.hoursWorkedAvailable
         /\ uploads' = SubSeq(uploads, 1, k - 1) \o
                         SubSeq(uploads, k + 1, Len(uploads))
  /\ UNCHANGED <<rows, probe, result, fileName, callVars>>

AppNext == StartUpload \/ FinishUpload

AppSpec == Init /\ [][AppNext]_vars

PctInit ==
  /\ rows = <<>>
  /\ hoursWorkedAvailable = TRUE
  /\ report = Null
  /\ probe \in {Some([sortedValues |-> q, a |-> a, b |-> b, key |-> k]) :
                  q \in SortedSeqs, a \in ProbeValues, b \in ProbeValues,
                  k \in MetricKeySet}
  /\ result = Null
  /\ NoCall
  /\ NoUpload

ComputePercentile ==
  /\ probe # Null
  /\ result = Null
  /\ result' =
       Some([pa |-> percentileFromSorted(probe[1].a, probe[1].sortedValues,
                                         METRIC_HIGHER_BETTER[probe[1].key]),
             pb |-> percentileFromSorted(probe[1].b, probe[1].sortedValues,
                                         METRIC_HIGHER_BETTER[probe[1].key])])
  /\ UNCHANGED <<rows, hoursWorkedAvailable, report, probe>>
  /\ UNCHANGED <<callVars, appVars>>

PctNext == ComputePercentile

PctSpec == PctInit /\ [][PctNext]_vars

(* Specification of the two binary searches, one pass of the loop at a    *)
(* time: result holds low and high, and the value returned once the loop  *)
(* has been left                                                          *)

SearchInit ==
  /\ rows = <<>>
  /\ hoursWorkedAvailable = TRUE
  /\ report = Null
  /\ probe \in {Some([values |-> q, target |-> a, search |-> s]) :
                  q \in SortedSeqs, a \in ProbeValues,
                  s \in {"lowerBound", "upperBound"}}
  /\ result = Some([low |-> 0, high |-> Len(probe[1].values),
                    returned |-> Null])
  /\ NoCall
  /\ NoUpload

SearchIterate ==
  /\ result[1].returned = Null
  /\ result[1].low < result[1].high
  /\ \E next \in
         {IF probe[1].search = "lowerBound"
            THEN lowerBoundBody(probe[1].values, probe[1].target,
                                result[1].low, result[1].high)
          ELSE upperBoundBody(probe[1].values, probe[1].target,
                              result[1].low, result[1].high)} :
       result' = Some([low |-> next[1], high |-> next[2], returned |-> Null])
  /\ UNCHANGED <<rows, hoursWorkedAvailable, report, probe>>
  /\ UNCHANGED <<callVars, appVars>>

SearchReturn ==
  /\ result[1].returned = Null
  /\ ~(result[1].low < result[1].high)
  /\ result' = Some([result[1] EXCEPT !.returned = Some(result[1].low)])
  /\ UNCHANGED <<rows, hoursWorkedAvailable, report, probe>>
  /\ UNCHANGED <<callVars, appVars>>

SearchNext == SearchIterate \/ SearchReturn

SearchSpec == SearchInit /\ [][SearchNext]_vars

(* a call that has started runs on until it returns *)
FairSearchSpec == SearchSpec /\ WF_vars(SearchNext)

(* Specification of direct calls of coerceRow: one numeric cell and the    *)
(* two string cells of the mapping vary, the other keys are missing        *)

NonNumericCells == {JsUndefined, NaN, Infinity, Neg(Infinity), TextAbc, TextNA}

RawNumericCells ==
  NonNumericCells \cup
    {Num(0 - 3), Frac(0 - 1, 2), Num(0), Num(5), Frac(3, 2), TextTwelve,
     TextMinusFour, TextBlank}

RawStringCells ==
  {JsUndefined, TextPaddedId, TextPaddedName, TextBo, TextBlank, Num(7)}

RawRows ==
  {(f :> v) @@ ("User ID" :> id) @@ ("User Name" :> name) :
     f \in RawRowNumericFields, v \in RawNumericCells,
     id \in RawStringCells, name \in RawStringCells}

CoerceInit ==
  /\ rows = <<>>
  /\ hoursWorkedAvailable = TRUE
  /\ report = Null
  /\ probe \in {Some(r) : r \in RawRows}
  /\ result = Null
  /\ NoCall
  /\ NoUpload

CoerceRow ==
  /\ probe # Null
  /\ result = Null
  /\ result' = Some(coerceRow(probe[1]))
  /\ UNCHANGED <<rows, hoursWorkedAvailable, report, probe>>
  /\ UNCHANGED <<callVars, appVars>>

CoerceNext == CoerceRow

CoerceSpec == CoerceInit /\ [][CoerceNext]_vars

(* Specification of direct calls of pickBySeed *)

SeedCodes == {45, 65, 122, 65535}

RECURSIVE SeedsUpTo(_)
SeedsUpTo(n) ==
  IF n = 0 THEN {<<>>}
  ELSE LET shorter == SeedsUpTo(n - 1)
       IN  shorter \cup {Append(seed, c) : seed \in shorter, c \in SeedCodes}

LongSeeds ==
  {<<112, 111, 108, 121, 103, 101, 110, 101, 108, 117, 98, 114, 105, 99, 97, 110, 116, 115>>,
   <<65, 49, 50, 45, 65, 110, 110, 45, 100, 101, 99, 111, 110, 45, 97, 114, 99, 104, 101, 116, 121, 112, 101>>,
   <<84, 101, 99, 104, 32, 35, 49, 45, 84, 101, 99, 104, 32, 49, 45, 109, 117, 108, 116, 105, 45, 115, 116, 114, 101, 110, 103, 116, 104>>,
   <<55, 45, 66, 111, 45, 113, 117, 97, 108, 105, 116, 121, 45, 115, 116, 114, 101, 110, 103, 116, 104>>,
   <<32, 99, 51, 32, 45, 84, 101, 99, 104, 32, 51, 45, 117, 116, 105, 108, 105, 116, 121, 45, 97, 114, 99, 104, 101, 116, 121, 112, 101>>}

Seeds ==
  SeedsUpTo(MaxSeedLen) \cup
    {SubSeq(seed, 1, n) : seed \in LongSeeds, n \in 0..18} \cup LongSeeds

AllTitles ==
  STRENGTH_TITLES.quality \o STRENGTH_TITLES.speed \o STRENGTH_TITLES.decon \o
    STRENGTH_TITLES.sterilize \o STRENGTH_TITLES.multi

Pools == {SubSeq(AllTitles, 1, n) : n \in 0..MaxPool}

HashInit ==
  /\ rows = <<>>
  /\ hoursWorkedAvailable = TRUE
  /\ report = Null
  /\ probe \in {<<items, seed>> : items \in Pools, seed \in Seeds}
  /\ result = Null
  /\ NoCall
  /\ NoUpload

PickBySeed ==
  /\ probe # Null
  /\ result = Null
  /\ result' = pickBySeed(probe[1], probe[2])
  /\ UNCHANGED <<rows, hoursWorkedAvailable, report, probe>>
  /\ UNCHANGED <<callVars, appVars>>

HashNext == PickBySeed

HashSpec == HashInit /\ [][HashNext]_vars

-----------------------------------------------------------------------------
(* Properties *)

Built == report # Null

Users == IF Built THEN report[1].users ELSE <<>>

UserIds == 1..Len(Users)

CountLess(values, v) == Cardinality({i \in 1..Len(values) : Lt(values[i], v)})

CountLeq(values, v) == Cardinality({i \in 1..Len(values) : Le(values[i], v)})

(* the mid-rank percentile, by counting *)
MidRank(values, v, higherBetter) ==
  IF Len(values) = 0 THEN Num(0)
  ELSE LET lower == CountLess(values, v)
           upper == CountLeq(values, v)
           p == Frac((2 * lower + (upper - lower)) * 50, Len(values))
           oriented == IF higherBetter THEN p ELSE Sub(Num(100), p)
       IN  IF Lt(oriented, Num(0)) THEN Num(0)
           ELSE IF Lt(Num(100), oriented) THEN Num(100) ELSE oriented

InRange(x) == Le(Num(0), x) /\ Le(x, Num(100))

ScorePercentileKeys ==
  {"productivityPercentile", "qualityPercentile", "versatilityPercentile"}

(* the k-th smallest of a non-empty list, by counting *)
Kth(values, k) ==
  CHOOSE v \in {values[i] : i \in 1..Len(values)} :
    CountLess(values, v) < k /\ k <= CountLeq(values, v)

RefMedian(values) ==
  LET n == Len(values)
  IN  IF n = 0 THEN Num(0)
      ELSE IF n % 2 = 1 THEN Kth(values, (n + 1) \div 2)
      ELSE Div(Add(Kth(values, n \div 2), Kth(values, n \div 2 + 1)), Num(2))

LowerIsBetterKeys == {"workedHoursPerUnit", "assemblyMissingInst", "defectRate"}

(* C1: every metric, pillar and composite-score percentile of every person *)
(* of a built report lies in [0,100].                                      *)
C1_PercentilesInRange ==
  \A i \in UserIds :
    /\ DOMAIN Users[i].percentiles = MetricKeySet
    /\ \A k \in MetricKeySet : InRange(Users[i].percentiles[k])
    /\ \A k \in PillarKeySet : InRange(Users[i].pillarPercentiles[k])
    /\ \A k \in ScorePercentileKeys : InRange(Users[i].scores[k])

C1_Witness ==
  /\ Len(Users) >= 3
  /\ \E i \in UserIds : \E k \in LowerIsBetterKeys :
       Lt(Num(80), Users[i].percentiles[k])
  /\ \E i \in UserIds : \E k \in PillarKeySet :
       Lt(Users[i].pillarPercentiles[k], Num(20))
  /\ \E i, j \in UserIds :
       Users[i].scores.qualityPercentile # Users[j].scores.qualityPercentile

(* C2: percentileFromSorted returns 0 for an empty cohort and otherwise    *)
(* the clamped, oriented mid-rank percentile computed from the number of   *)
(* cohort values below the value and the number at or below it.            *)
C2_PercentileFormula ==
  result # Null =>
    LET hb == METRIC_HIGHER_BETTER[probe[1].key]
    IN  /\ result[1].pa = MidRank(probe[1].sortedValues, probe[1].a, hb)
        /\ result[1].pb = MidRank(probe[1].sortedValues, probe[1].b, hb)
        /\ Len(probe[1].sortedValues) = 0 => result[1].pa = Num(0)

C2_Witness ==
  /\ result # Null
  /\ probe[1].key = "defectRate"
  /\ Len(probe[1].sortedValues) >= 3
  /\ CountLeq(probe[1].sortedValues, probe[1].a) -
       CountLess(probe[1].sortedValues, probe[1].a) >= 2
  /\ CountLess(probe[1].sortedValues, probe[1].a) >= 1
  /\ result[1].pa = Frac(100, 3)

(* C3: two people of one report with equal values of a metric, a pillar    *)
(* total or a composite score have equal percentiles for it.               *)
C3_TiesShareAPercentile ==
  \A i, j \in UserIds :
    /\ \A k \in MetricKeySet :
         Users[i].metrics[k] = Users[j].metrics[k] =>
           Users[i].percentiles[k] = Users[j].percentiles[k]
    /\ \A k \in PillarKeySet :
         Users[i].pillarTotals[k] = Users[j].pillarTotals[k] =>
           Users[i].pillarPercentiles[k] = Users[j].pillarPercentiles[k]
    /\ Users[i].scores.productivity = Users[j].scores.productivity =>
         Users[i].scores.productivityPercentile =
           Users[j].scores.productivityPercentile
    /\ Users[i].scores.quality = Users[j].scores.quality =>
         Users[i].scores.qualityPercentile = Users[j].scores.qualityPercentile
    /\ Users[i].scores.versatility = Users[j].scores.versatility =>
         Users[i].scores.versatilityPercentile =
           Users[j].scores.versatilityPercentile

C3_Witness ==
  /\ Len(Users) >= 3
  /\ \E i, j, l \in UserIds :
       /\ i < j
       /\ Users[i].metrics.workedHoursPerUnit = Users[j].metrics.workedHoursPerUnit
       /\ Users[i].metrics.deconScans = Users[j].metrics.deconScans
       /\ Lt(Users[l].metrics.workedHoursPerUnit, Users[i].metrics.workedHoursPerUnit)
       /\ Lt(Users[i].metrics.deconScans, Users[l].metrics.deconScans)
       /\ Users[i].percentiles.deconScans = Frac(100, 3)

(* C4: against a fixed cohort, a larger value never gets a smaller         *)
(* percentile under a higher-is-better metric and never a larger one under *)
(* the lower-is-better metrics workedHoursPerUnit, assemblyMissingInst and *)
(* defectRate.                                                             *)
C4_MonotonicInOrientation ==
  (result # Null /\ Lt(probe[1].b, probe[1].a)) =>
     IF probe[1].key \in LowerIsBetterKeys
     THEN Le(result[1].pa, result[1].pb)
     ELSE Ge(result[1].pa, result[1].pb)

C4_Witness ==
  /\ result # Null
  /\ Lt(probe[1].b, probe[1].a)
  /\ probe[1].key = "assemblyMissingInst"
  /\ Lt(result[1].pa, result[1].pb)
  /\ Lt(Num(0), result[1].pa)

(* C5 (two runs on the same rows and flag give the same report) relates    *)
(* pairs of runs.  buildReport is an operator of its two arguments here,   *)
(* so the statement has no formula that a behaviour could violate.         *)

(* what toNumber leaves of a cell: finite and positive, or else 0 *)
Normalized(v) == IF IsFinite(v) /\ Lt(Num(0), v) THEN v ELSE Num(0)

IsZeroRow(row) == \A f \in NumericFields : Normalized(row[f]) = Num(0)

AllFinite(user) ==
  /\ IsFinite(user.hoursWorked)
  /\ \A k \in MetricKeySet : IsFinite(user.metrics[k]) /\ IsFinite(user.percentiles[k])
  /\ \A k \in PillarKeySet :
       IsFinite(user.pillarTotals[k]) /\ IsFinite(user.pillarPercentiles[k])
  /\ \A k \in DOMAIN user.scores : IsFinite(user.scores[k])

SinglePersonAllZero == Built /\ Len(rows) = 1 /\ IsZeroRow(rows[1])

(* C6 as claimed: for a single person with all counters and hours 0 the    *)
(* report is built without division errors, every percentile of the person *)
(* is 0 and the versatility score is 0.                                    *)
C6_Original ==
  SinglePersonAllZero =>
    /\ Len(Users) = 1
    /\ AllFinite(Users[1])
    /\ \A k \in MetricKeySet : Users[1].percentiles[k] = Num(0)
    /\ \A k \in PillarKeySet : Users[1].pillarPercentiles[k] = Num(0)
    /\ \A k \in ScorePercentileKeys : Users[1].scores[k] = Num(0)
    /\ Users[1].scores.versatility = Num(0)

(* C6 amended: for a single person with all counters and hours 0 the       *)
(* report is built without division errors, every percentile of the person *)
(* is 50 and the versatility score is 100.                                 *)
C6_SingleZeroPerson ==
  SinglePersonAllZero =>
    /\ Len(Users) = 1
    /\ AllFinite(Users[1])
    /\ \A k \in MetricKeySet : Users[1].percentiles[k] = Num(50)
    /\ \A k \in PillarKeySet : Users[1].pillarPercentiles[k] = Num(50)
    /\ \A k \in ScorePercentileKeys : Users[1].scores[k] = Num(50)
    /\ Users[1].scores.versatility = Num(100)

C6_Witness ==
  /\ SinglePersonAllZero
  /\ Users[1].hoursWorked = Num(0)
  /\ \A k \in PillarKeySet : Users[1].pillarTotals[k] = Num(0)

PillarTotalsColumn(k) == [j \in UserIds |-> Users[j].pillarTotals[k]]

RefRate(j, k) ==
  Div(Users[j].pillarTotals[k],
      IF Lt(Users[j].hoursWorked, Frac(1, 4)) THEN Frac(1, 4)
      ELSE Users[j].hoursWorked)

PillarRatesColumn(k) == [j \in UserIds |-> RefRate(j, k)]

Average3(f) == Div(Add(Add(f["decon"], f["assembly"]), f["sterilize"]), Num(3))

TotalsProductivity(i) ==
  Average3([k \in PillarKeySet |->
              MidRank(PillarTotalsColumn(k), Users[i].pillarTotals[k], TRUE)])

RatesProductivity(i) ==
  Average3([k \in PillarKeySet |->
              MidRank(PillarRatesColumn(k), RefRate(i, k), TRUE)])

(* C7: without hours data every person's productivity is the average of    *)
(* the three pillar-total percentiles; with hours data it is the average   *)
(* of the percentiles of the rates total/max(hoursWorked, 0.25); one flag  *)
(* decides for the whole report.                                           *)
C7_ProductivityBranch ==
  \A i \in UserIds :
    /\ ~hoursWorkedAvailable =>
         /\ Users[i].scores.productivity = TotalsProductivity(i)
         /\ Users[i].scores.productivity = Average3(Users[i].pillarPercentiles)
    /\ hoursWorkedAvailable =>
         Users[i].scores.productivity = RatesProductivity(i)

C7_Witness ==
  /\ Built
  /\ ~hoursWorkedAvailable
  /\ \E i, j \in UserIds :
       /\ Users[i].hoursWorked # Users[j].hoursWorked
       /\ Lt(Num(0), Users[i].hoursWorked)
       /\ Lt(Num(0), Users[j].hoursWorked)
       /\ TotalsProductivity(i) # RatesProductivity(i)

PillarsAtOrAboveMedian(i) ==
  {k \in PillarKeySet :
     Le(RefMedian(PillarTotalsColumn(k)), Users[i].pillarTotals[k])}

(* C8: the versatility score is the number of pillars whose total is at or *)
(* above the cohort median of the pillar, divided by 3, times 100: one of  *)
(* 0, 100/3, 200/3 and 100.                                                *)
C8_Versatility ==
  \A i \in UserIds :
    /\ Users[i].scores.versatility =
         Frac(100 * Cardinality(PillarsAtOrAboveMedian(i)), 3)
    /\ Users[i].scores.versatility \in
         {Num(0), Frac(100, 3), Frac(200, 3), Num(100)}

C8_Witness ==
  /\ Built
  /\ \E i \in UserIds : Users[i].scores.versatility = Frac(100, 3)
  /\ \E i \in UserIds : Users[i].scores.versatility = Frac(200, 3)
  /\ \E i \in UserIds : Users[i].scores.versatility = Num(100)

(* C9: a pillar's above-median flag is true exactly when the person's      *)
(* total is at or above the cohort median of the pillar, the median of an  *)
(* even-sized cohort being the mean of its two middle values; with decon   *)
(* totals 10 and 0 the median is 5, the flag true for 10 and false for 0.  *)
C9_AboveMedianFlags ==
  Built =>
    /\ \A k \in PillarKeySet :
         /\ report[1].pillarMedians[k] = RefMedian(PillarTotalsColumn(k))
         /\ \A i \in UserIds :
              Users[i].pillarsAboveMedian[k] = (k \in PillarsAtOrAboveMedian(i))
    /\ \A i, j \in UserIds :
         (/\ Len(Users) = 2
          /\ Users[i].pillarTotals.decon = Num(10)
          /\ Users[j].pillarTotals.decon = Num(0)) =>
            /\ report[1].pillarMedians.decon = Num(5)
            /\ Users[i].pillarsAboveMedian.decon
            /\ ~Users[j].pillarsAboveMedian.decon

C9_Witness ==
  /\ Built
  /\ Len(Users) = 2
  /\ Users[1].pillarTotals.decon = Num(0)
  /\ Users[2].pillarTotals.decon = Num(10)
  /\ Users[1].hoursWorked = Num(10)
  /\ Users[2].hoursWorked = Num(10)
  /\ ~Users[1].pillarsAboveMedian.decon

(* C10: the pillar totals of every person are the sums of the person's     *)
(* normalized counters: decon = deconScans + sinkInst + sinkTrays,         *)
(* assembly = assembledInst + assembledTrays + assembledPacks, sterilize = *)
(* itemsSterilized + sterilizerLoads + deliverScans; all three keys are    *)
(* present.                                                                *)
C10_PillarTotals ==
  Built =>
    /\ Len(Users) = Len(rows)
    /\ \A i \in UserIds :
         /\ DOMAIN Users[i].pillarTotals = PillarKeySet
         /\ Users[i].pillarTotals.decon =
              Add(Add(Normalized(rows[i]["Decon Scans"]),
                      Normalized(rows[i]["Sink Inst"])),
                  Normalized(rows[i]["Sink Trays"]))
         /\ Users[i].pillarTotals.assembly =
              Add(Add(Normalized(rows[i]["Assembled Inst"]),
                      Normalized(rows[i]["Assembled Trays"])),
                  Normalized(rows[i]["Assembled Packs"]))
         /\ Users[i].pillarTotals.sterilize =
              Add(Add(Normalized(rows[i]["Items Sterilized"]),
                      Normalized(rows[i]["Sterilizer Loads"])),
                  Normalized(rows[i]["Deliver Scans"]))

C10_Witness ==
  /\ Built
  /\ \E i \in UserIds :
       /\ Lt(Num(0), rows[i]["Assembled Packs"])
       /\ Lt(Num(0), rows[i]["Assembled Trays"])
       /\ Lt(Num(0), rows[i]["Sink Inst"])
       /\ Lt(Num(0), Users[i].pillarTotals.assembly)
  /\ \E i \in UserIds :
       /\ Lt(rows[i]["Decon Scans"], Num(0))
       /\ Users[i].pillarTotals.decon = Num(0)
       /\ Lt(Num(0), Users[i].pillarTotals.sterilize)

AtLeast(x, floor) == IF Lt(x, floor) THEN floor ELSE x

MetricColumn(k) == [j \in UserIds |-> Users[j].metrics[k]]

C12_Quality ==
  \A i \in UserIds :
    /\ Users[i].scores.quality =
         Add(Mul(Frac(7, 10),
                 MidRank(MetricColumn("defectRate"),
                         Users[i].metrics.defectRate, FALSE)),
             Mul(Frac(3, 10),
                 MidRank(MetricColumn("assemblyMissingInst"),
                         Users[i].metrics.assemblyMissingInst, FALSE)))
    /\ \A j \in UserIds :
         (/\ Le(Users[i].metrics.defectRate, Users[j].metrics.defectRate)
          /\ Le(Users[i].metrics.assemblyMissingInst,
                Users[j].metrics.assemblyMissingInst)) =>
            Ge(Users[i].scores.quality, Users[j].scores.quality)

C12_Witness ==
  /\ Built
  /\ \E i, j \in UserIds :
       /\ Lt(Users[i].metrics.defectRate, Users[j].metrics.defectRate)
       /\ Lt(Users[i].metrics.assemblyMissingInst,
             Users[j].metrics.assemblyMissingInst)
       /\ Lt(Users[j].scores.quality, Users[i].scores.quality)
  /\ \E i \in UserIds :
       Users[i].percentiles.defectRate # Users[i].percentiles.assemblyMissingInst

(* C13: a report built from no rows has no users, and each of its 12       *)
(* metric medians and 3 pillar medians is 0.                               *)
C13_EmptyCohort ==
  (Built /\ Len(rows) = 0) =>
    /\ report[1].users = <<>>
    /\ DOMAIN report[1].medians = MetricKeySet
    /\ DOMAIN report[1].pillarMedians = PillarKeySet
    /\ \A k \in MetricKeySet : report[1].medians[k] = Num(0)
    /\ \A k \in PillarKeySet : report[1].pillarMedians[k] = Num(0)

C13_Witness == Built /\ Len(rows) = 0 /\ Len(report[1].users) = 0

(* C14: coerceRow returns, for every mapping, a row whose 15 numeric       *)
(* fields are finite numbers >= 0; absent, non-numeric and non-finite      *)
(* cells become 0 and negative numbers are clamped to 0.                   *)
C14_NumericFieldsNormalized ==
  result # Null =>
    /\ DOMAIN result[1] = StringFields \cup RawRowNumericFields
    /\ \A f \in RawRowNumericFields :
         LET cell == CellOf(probe[1], f)
             out == result[1][f]
         IN  /\ IsJsNumber(out)
             /\ IsFinite(out)
             /\ Le(Num(0), out)
             /\ cell \in NonNumericCells => out = Num(0)
             /\ IsJsNumber(cell) => out = Normalized(cell)

C14_Witness ==
  /\ result # Null
  /\ CellOf(probe[1], "Assembly Missing Inst") = Num(0 - 3)
  /\ result[1]["Assembly Missing Inst"] = Num(0)
  /\ CellOf(probe[1], "Decon Scans") = JsUndefined
  /\ result[1]["Decon Scans"] = Num(0)

(* C15 as claimed: coerceRow returns User ID and User Name as text without *)
(* leading or trailing white space, and the empty string for an absent     *)
(* field.                                                                  *)
C15_Original ==
  result # Null =>
    \A f \in StringFields :
      /\ IsJsString(result[1][f])
      /\ Trim(result[1][f][3]) = result[1][f][3]
      /\ CellOf(probe[1], f) = JsUndefined => result[1][f][3] = <<>>

(* the 32-bit pattern of h * 31 + c as four bytes, lowest first *)
TimesPlus(bytes, c) ==
  LET v1 == bytes[1] * 31 + c
      v2 == bytes[2] * 31 + v1 \div 256
      v3 == bytes[3] * 31 + v2 \div 256
      v4 == bytes[4] * 31 + v3 \div 256
  IN  <<v1 % 256, v2 % 256, v3 % 256, v4 % 256>>

RECURSIVE RefHash(_)
RefHash(seed) ==
  IF seed = <<>> THEN <<0, 0, 0, 0>>
  ELSE CHOOSE next \in
         {TimesPlus(bytes, seed[Len(seed)]) :
            bytes \in {RefHash(SubSeq(seed, 1, Len(seed) - 1))}} : TRUE

RefNegative(bytes) == bytes[4] >= 128

MostNegative == <<0, 0, 0, 128>>

(* the unsigned value of the pattern, modulo n *)
RefUnsignedMod(bytes, n) ==
  LET r4 == bytes[4] % n
      r3 == (r4 * 256 + bytes[3]) % n
      r2 == (r3 * 256 + bytes[2]) % n
  IN  (r2 * 256 + bytes[1]) % n

Pow32Mod(n) == (((65536 % n) * (65536 % n)) % n)

(* |h| mod n for the signed value h of the pattern *)
RefIndex(bytes, n) ==
  IF RefNegative(bytes)
    THEN (Pow32Mod(n) + n - RefUnsignedMod(bytes, n)) % n
    ELSE RefUnsignedMod(bytes, n)

(* C20: for every seed and non-empty pool pickBySeed returns the element   *)
(* at index |h| mod poolSize, h being the wrapped 32-bit h*31 + charCode   *)
(* hash; the index is in 0..poolSize-1 also for the most negative h.       *)
C20_PickBySeedIndex ==
  (result # Null /\ Len(probe[1]) > 0) =>
    LET items == probe[1]
        index == RefIndex(RefHash(probe[2]), Len(items))
    IN  /\ index \in 0..(Len(items) - 1)
        /\ result = Return(items[index + 1])

C20_Witness ==
  /\ result # Null
  /\ Len(probe[1]) = 5
  /\ RefHash(probe[2]) = MostNegative
  /\ result = Return(probe[1][4])

ArchetypeKeys == {"decon", "assembly", "sterilize", "utility"}

(* the category an archetype was picked for, read off its icon *)
CategoryOf(i) ==
  CHOOSE k \in ArchetypeKeys : archetypeIconMap[k] = Users[i].archetype.icon

ArchetypeLabels(k) ==
  {ARCHETYPE_OPTIONS[k][j].label : j \in 1..Len(ARCHETYPE_OPTIONS[k])}

SumOfTotals(i) ==
  Add(Add(Users[i].pillarTotals["decon"], Users[i].pillarTotals["assembly"]),
      Users[i].pillarTotals["sterilize"])

TopOfTotals(i) ==
  CHOOSE t \in {Users[i].pillarTotals[k] : k \in PillarKeySet} :
    \A k \in PillarKeySet : Le(Users[i].pillarTotals[k], t)

AboveMedianCount(i) == Cardinality(PillarsAtOrAboveMedian(i))

(* topShare < 0.4, with topShare = top/sum and 0 when sum = 0 *)
TopShareBelowTwoFifths(i) ==
  \/ SumOfTotals(i) = Num(0)
  \/ Lt(Mul(Num(5), TopOfTotals(i)), Mul(Num(2), SumOfTotals(i)))

UtilityRule(i) == TopShareBelowTwoFifths(i) /\ AboveMedianCount(i) >= 2

(* C16: a person is 'utility' exactly when topShare < 0.4 and at least 2 *)
(* pillars are >= the cohort median; a person with sum = 0 who meets the   *)
(* median condition is 'utility'.                                          *)
C16_UtilityFirst ==
  \A i \in UserIds :
    /\ CategoryOf(i) = "utility" <=> UtilityRule(i)
    /\ Users[i].archetype.label \in ArchetypeLabels(CategoryOf(i))
    /\ (SumOfTotals(i) = Num(0) /\ AboveMedianCount(i) >= 2)
         => CategoryOf(i) = "utility"

C16_Witness ==
  /\ Built
  /\ \E i \in UserIds :
       SumOfTotals(i) = Num(0) /\ CategoryOf(i) = "utility"
  /\ \E i \in UserIds :
       SumOfTotals(i) # Num(0) /\ CategoryOf(i) = "utility"
  /\ \E i \in UserIds :
       AboveMedianCount(i) >= 2 /\ CategoryOf(i) # "utility"

PillarOrder == <<"decon", "assembly", "sterilize">>

(* the first pillar, in declaration order, of the highest pillar percentile *)
HighestPercentilePillar(i) ==
  LET best(n) ==
        \A m \in 1..3 :
          Le(Users[i].pillarPercentiles[PillarOrder[m]],
             Users[i].pillarPercentiles[PillarOrder[n]])
      first == CHOOSE n \in 1..3 : best(n) /\ \A m \in 1..(n - 1) : ~best(m)
  IN  PillarOrder[first]

(* C17: when rule 1 does not apply and the three pillar totals sum to 0,   *)
(* the category is the pillar with the highest pillar percentile, ties     *)
(* going to the first of decon, assembly, sterilize.                       *)
C17_ZeroTotalByPercentile ==
  \A i \in UserIds :
    (~UtilityRule(i) /\ SumOfTotals(i) = Num(0))
      => CategoryOf(i) = HighestPercentilePillar(i)

C17_Witness ==
  /\ Built
  /\ \E i \in UserIds :
       /\ ~UtilityRule(i)
       /\ SumOfTotals(i) = Num(0)
       /\ CategoryOf(i) = "sterilize"
       /\ Users[i].pillarPercentiles["decon"] =
            Users[i].pillarPercentiles["assembly"]

(* C18: when rules 1 and 2 do not apply the category is 'assembly' if the  *)
(* assembly total equals the largest total, else 'sterilize' if the        *)
(* sterilize total does, else 'decon'; 'decon' is chosen only when the     *)
(* decon total is strictly greater than both others.                       *)
C18_TopPillarCheckOrder ==
  \A i \in UserIds :
    (~UtilityRule(i) /\ SumOfTotals(i) # Num(0)) =>
      LET totals == Users[i].pillarTotals
          top == TopOfTotals(i)
      IN  /\ totals[CategoryOf(i)] = top
          /\ totals["assembly"] = top => CategoryOf(i) = "assembly"
          /\ (totals["assembly"] # top /\ totals["sterilize"] = top)
               => CategoryOf(i) = "sterilize"
          /\ CategoryOf(i) = "decon" =>
               /\ Lt(totals["assembly"], totals["decon"])
               /\ Lt(totals["sterilize"], totals["decon"])

C18_Witness ==
  /\ Built
  /\ \E i \in UserIds :
       /\ ~UtilityRule(i)
       /\ Users[i].pillarTotals["decon"] = Num(3)
       /\ Users[i].pillarTotals["assembly"] = Num(3)
       /\ Users[i].pillarTotals["sterilize"] = Num(3)
       /\ CategoryOf(i) = "assembly"
  /\ \E i \in UserIds :
       /\ ~UtilityRule(i)
       /\ Users[i].pillarTotals["decon"] = Num(4)
       /\ Users[i].pillarTotals["assembly"] = Num(0)
       /\ Users[i].pillarTotals["sterilize"] = Num(4)
       /\ CategoryOf(i) = "sterilize"

StrengthOrder == <<"quality", "speed", "decon", "sterilize", "multi">>

Eligible(i, category) ==
  CASE category = "quality" -> Le(Num(90), Users[i].percentiles["defectRate"])
    [] category = "speed" -> Le(Num(90), Users[i].percentiles["assembledInst"])
    [] category = "decon" -> Le(Num(90), Users[i].pillarPercentiles["decon"])
    [] category = "sterilize" ->
         Le(Num(90), Users[i].pillarPercentiles["sterilize"])
    [] category = "multi" -> AboveMedianCount(i) >= 2

EligibleInOrder(i) ==
  SelectSeq(StrengthOrder, LAMBDA category : Eligible(i, category))

TitlesOf(category) ==
  {STRENGTH_TITLES[category][j] : j \in 1..Len(STRENGTH_TITLES[category])}

(* C19: the badge list holds exactly one title per eligible category, in   *)
(* the order quality, speed, decon, sterilize, multi, each title from its  *)
(* own category's pool; it has between 0 and 5 entries.                    *)
C19_Badges ==
  \A i \in UserIds :
    LET eligible == EligibleInOrder(i)
        badges == Users[i].badges
    IN  /\ Len(badges) = Len(eligible)
        /\ Len(badges) \in 0..5
        /\ \A j \in 1..Len(badges) : badges[j] \in TitlesOf(eligible[j])

C19_Witness ==
  /\ Built
  /\ \E i \in UserIds :
       /\ Len(Users[i].badges) = 5
       /\ Users[i].percentiles["defectRate"] = Num(90)
       /\ Users[i].badges[1] \in TitlesOf("quality")
       /\ Users[i].badges[5] \in TitlesOf("multi")
  /\ \E i \in UserIds :
       /\ Len(Users[i].badges) = 1
       /\ Users[i].badges[1] \in TitlesOf("multi")

-----------------------------------------------------------------------------
(* the error pickBySeed raises on an empty pool *)
SelectionError == Throw("No items available for selection")

FixedPoolSizes ==
  {Len(ARCHETYPE_OPTIONS[key]) : key \in DOMAIN ARCHETYPE_OPTIONS} \cup
  {Len(STRENGTH_TITLES[key]) : key \in DOMAIN STRENGTH_TITLES} \cup
  {Len(strengthTemplates), Len(growthTemplates)}

(* C21: a seeded pick from an empty pool raises the selection error; the   *)
(* fixed archetype, badge and template pools are all non-empty, so every   *)
(* call of buildReport completes with a report and never with that error.  *)
C21_NoSelectionError ==
  /\ \A size \in FixedPoolSizes : size > 0
  /\ Built => Len(report) = 1
  /\ \A i \in UserIds :
       pickBySeed(<<>>, userSeedOf(Users[i])) = SelectionError

C21_Witness ==
  /\ Built
  /\ Len(report) = 1
  /\ Len(Users) >= 2
  /\ \E i \in UserIds : Len(Users[i].badges) >= 1

-----------------------------------------------------------------------------
MetricIds == 1..Len(DEFAULT_METRICS)

(* person i's oriented percentile on the k-th declared metric *)
PercentileAt(i, k) == Users[i].percentiles[DEFAULT_METRICS[k].key]

(* the first declared metric on which person i's percentile is highest *)
FirstHighest(i) ==
  CHOOSE k \in MetricIds :
    /\ \A j \in MetricIds : Le(PercentileAt(i, j), PercentileAt(i, k))
    /\ \A j \in 1..(k - 1) : Lt(PercentileAt(i, j), PercentileAt(i, k))

(* the first declared metric on which person i's percentile is lowest *)
FirstLowest(i) ==
  CHOOSE k \in MetricIds :
    /\ \A j \in MetricIds : Le(PercentileAt(i, k), PercentileAt(i, j))
    /\ \A j \in 1..(k - 1) : Lt(PercentileAt(i, k), PercentileAt(i, j))

(* C22: a person's strength is the metric with their highest oriented      *)
(* percentile and their opportunity the metric with the lowest; among      *)
(* equal percentiles the metric declared first of the 12 wins, so with     *)
(* all percentiles equal both are deconScans.                              *)
C22_StrengthAndOpportunity ==
  \A i \in UserIds :
    /\ Users[i].strengths = <<DEFAULT_METRICS[FirstHighest(i)].label>>
    /\ Users[i].opportunity = DEFAULT_METRICS[FirstLowest(i)].label
    /\ (\A j, k \in MetricIds : PercentileAt(i, j) = PercentileAt(i, k))
         => /\ DEFAULT_METRICS[FirstHighest(i)].key = "deconScans"
            /\ DEFAULT_METRICS[FirstLowest(i)].key = "deconScans"

C22_Witness ==
  /\ Built
  /\ \E i \in UserIds :
       /\ \E k \in MetricIds :
            k > 1 /\ PercentileAt(i, k) = PercentileAt(i, 1)
       /\ Users[i].strengths = <<DEFAULT_METRICS[1].label>>
       /\ Users[i].opportunity # DEFAULT_METRICS[1].label
  /\ \E i \in UserIds :
       /\ FirstHighest(i) > 1
       /\ \E k \in MetricIds :
            /\ k > FirstHighest(i)
            /\ PercentileAt(i, k) = PercentileAt(i, FirstHighest(i))
  /\ \E i \in UserIds :
       /\ FirstLowest(i) > 1
       /\ \E k \in MetricIds :
            /\ k > FirstLowest(i)
            /\ PercentileAt(i, k) = PercentileAt(i, FirstLowest(i))

-----------------------------------------------------------------------------
SearchReturned == result # Null /\ result[1].returned # Null

(* what the search in progress is to count in its array *)
SearchCount ==
  IF probe[1].search = "lowerBound"
    THEN CountLess(probe[1].values, probe[1].target)
  ELSE CountLeq(probe[1].values, probe[1].target)

SearchBoundsOrdered ==
  LET lower == lowerBound(probe[1].values, probe[1].target)
      upper == upperBound(probe[1].values, probe[1].target)
  IN  /\ 0 <= lower
      /\ lower <= upper
      /\ upper <= Len(probe[1].values)
      /\ lower = CountLess(probe[1].values, probe[1].target)
      /\ upper = CountLeq(probe[1].values, probe[1].target)

(* C26: on an ascending array lowerBound returns the number of elements    *)
(* strictly less than the target and upperBound the number of elements     *)
(* less than or equal to it; each search leaves its loop and returns; and  *)
(* 0 <= lowerBound <= upperBound <= length.                                *)
C26_BinarySearches ==
  /\ [](SearchReturned =>
          /\ result[1].returned[1] = SearchCount
          /\ SearchBoundsOrdered)
  /\ <>SearchReturned

C26_Witness ==
  /\ SearchReturned
  /\ probe[1].search = "lowerBound"
  /\ Len(probe[1].values) = 3
  /\ CountLess(probe[1].values, probe[1].target) = 1
  /\ CountLeq(probe[1].values, probe[1].target) = 3

-----------------------------------------------------------------------------
(* every percentile in person i's record *)
AllPercentilesOf(i) ==
  {Users[i].percentiles[k] : k \in MetricKeySet} \cup
  {Users[i].pillarPercentiles[k] : k \in PillarKeySet} \cup
  {Users[i].scores[k] : k \in ScorePercentileKeys}

LowestPossible == Frac(50, Len(Users))

HighestPossible == Sub(Num(100), Frac(50, Len(Users)))

-----------------------------------------------------------------------------
SameHoursForAll ==
  \A i, j \in UserIds : Users[i].hoursWorked = Users[j].hoursWorked

NoHoursAboveFloor ==
  \A i \in UserIds : Le(Users[i].hoursWorked, Frac(1, 4))

(* the people of the report the same rows give under the other setting of  *)
(* hoursWorkedAvailable                                                    *)
UsersUnderOtherSetting == buildReport(rows, ~hoursWorkedAvailable)[2].users

-----------------------------------------------------------------------------
HasMultiBadge(i) ==
  \E j \in 1..Len(Users[i].badges) : Users[i].badges[j] \in TitlesOf("multi")

(* C30: a person's badge list holds a multi-pillar title exactly when      *)
(* their versatility score is 200/3 or 100, which is when at least 2 of    *)
(* their pillar totals reach the cohort median; every person whose         *)
(* archetype category is utility has a multi-pillar badge.                 *)
C30_MultiBadge ==
  \A i \in UserIds :
    /\ HasMultiBadge(i) <=>
         Users[i].scores.versatility \in {Frac(200, 3), Num(100)}
    /\ HasMultiBadge(i) <=> AboveMedianCount(i) >= 2
    /\ CategoryOf(i) = "utility" => HasMultiBadge(i)

C30_Witness ==
  /\ Built
  /\ \E i \in UserIds :
       /\ Users[i].scores.versatility = Frac(200, 3)
       /\ CategoryOf(i) = "utility"
       /\ HasMultiBadge(i)
  /\ \E i \in UserIds :
       /\ Users[i].scores.versatility = Num(100)
       /\ CategoryOf(i) # "utility"
       /\ HasMultiBadge(i)
  /\ \E i \in UserIds :
       /\ Users[i].scores.versatility = Frac(100, 3)
       /\ ~HasMultiBadge(i)

-----------------------------------------------------------------------------
RowIds == 1..Len(rows)

(* the column of a metric, and of a pillar total, over the whole cohort *)
BaseMetricColumn(k) == [j \in RowIds |-> locals.baseUsers[j].metrics[k]]

BasePillarColumn(k) == [j \in RowIds |-> locals.baseUsers[j].pillarTotals[k]]

(* the column of a composite score over the whole cohort *)
FinalScoreColumn(k) ==
  [j \in RowIds |-> locals.usersWithPercentiles[j].scores[k]]

ScorePercentileKey ==
  [productivity |-> "productivityPercentile",
   quality      |-> "qualityPercentile",
   versatility  |-> "versatilityPercentile"]

(* C23: the stages run in strict order.  When any person's metric or       *)
(* pillar percentile has been computed, every person's metrics and pillar  *)
(* totals exist; when any person's composite-score percentile has been     *)
(* computed, every person's productivity, quality and versatility scores   *)
(* exist; and each composite percentile is the person's mid-rank in the    *)
(* final score column of the whole cohort.                                 *)
C23_StagesInOrder ==
  /\ locals.cohort # Null => DOMAIN locals.baseUsers = RowIds
  /\ locals.usersWithPercentiles # <<>> => DOMAIN locals.baseUsers = RowIds
  /\ locals.scoreSorted # Null => DOMAIN locals.usersWithPercentiles = RowIds
  /\ locals.usersWithScores # <<>> =>
       DOMAIN locals.usersWithPercentiles = RowIds
  /\ \A i \in DOMAIN locals.usersWithPercentiles :
       /\ \A k \in MetricKeySet :
            locals.usersWithPercentiles[i].percentiles[k] =
              MidRank(BaseMetricColumn(k), locals.baseUsers[i].metrics[k],
                      METRIC_HIGHER_BETTER[k])
       /\ \A k \in PillarKeySet :
            locals.usersWithPercentiles[i].pillarPercentiles[k] =
              MidRank(BasePillarColumn(k), locals.baseUsers[i].pillarTotals[k],
                      TRUE)
  /\ \A i \in DOMAIN locals.usersWithScores :
       \A k \in DOMAIN ScorePercentileKey :
         locals.usersWithScores[i].scores[ScorePercentileKey[k]] =
           MidRank(FinalScoreColumn(k),
                   locals.usersWithPercentiles[i].scores[k], TRUE)

C23_Witness ==
  /\ pc = "usersWithScores"
  /\ Len(rows) = 3
  /\ DOMAIN locals.usersWithScores = {2}
  /\ \E i, j \in RowIds :
       Lt(locals.usersWithPercentiles[i].scores.productivity,
          locals.usersWithPercentiles[j].scores.productivity)
  /\ locals.usersWithScores[2].scores.productivityPercentile # Num(50)

(* the report buildReport gives for the rows when its maps go through the  *)
(* persons in ascending order                                              *)
InOrderUsers == buildReport(rows, hoursWorkedAvailable)[2].users

(* C24: within a stage the persons can be processed in any order or        *)
(* interleaving: whatever the order, every person's record at every stage  *)
(* is the one the ascending order gives, and so is the report returned.    *)
C24_OrderIndependent ==
  pc # "idle" =>
    \A inOrder \in {InOrderUsers} :
      /\ \A i \in DOMAIN locals.baseUsers :
           \A f \in DOMAIN locals.baseUsers[i] :
             locals.baseUsers[i][f] = inOrder[i][f]
      /\ \A i \in DOMAIN locals.usersWithPercentiles :
           \A f \in DOMAIN locals.usersWithPercentiles[i] \ {"scores"} :
             locals.usersWithPercentiles[i][f] = inOrder[i][f]
      /\ \A i \in DOMAIN locals.usersWithPercentiles :
           \A k \in DOMAIN ScorePercentileKey :
             locals.usersWithPercentiles[i].scores[k] = inOrder[i].scores[k]
      /\ \A i \in DOMAIN locals.usersWithScores :
           locals.usersWithScores[i] = inOrder[i]
      /\ pc = "done" => report = Some([report[1] EXCEPT !.users = inOrder])

C24_Witness ==
  /\ pc = "usersWithScores"
  /\ Len(rows) = 3
  /\ DOMAIN locals.usersWithScores = {3, 1}
  /\ locals.usersWithScores[1] # locals.usersWithScores[3]
  /\ locals.usersWithScores[1].techLabel # locals.usersWithScores[3].techLabel

-----------------------------------------------------------------------------
(* the file whose name App shows *)
FileShown == CHOOSE file \in Files : file.name = fileName

(* C25 as stated: once no read is under way, the report App holds is the   *)
(* one built from the most recently uploaded file, the one whose name is   *)
(* shown, or null if that upload failed; this holds also when reads        *)
(* overlap and end in another order than they began.                       *)
C25_Original ==
  (fileName # "" /\ uploads = <<>>) =>
    /\ report = uploadOutcome(FileShown).report
    /\ hoursWorkedAvailable = uploadOutcome(FileShown).hoursWorkedAvailable

-----------------------------------------------------------------------------
(* every member of the cohort has its percentiles and scores *)
AllScored == Len(result[1]) = Len(probe[1])

(* the sum, not rounded, of what Pick takes from each scored member *)
TotalOf(Pick(_)) ==
  FoldRange(LAMBDA i, total : ExactSum(total, Pick(result[1][i])),
            1, Len(result[1]), Double(0))

PercentileTotals ==
  {TotalOf(LAMBDA scored : scored.percentiles.defectRate),
   TotalOf(LAMBDA scored : scored.percentiles.assemblyMissingInst),
   TotalOf(LAMBDA scored : scored.pillarRatePercentiles.decon),
   TotalOf(LAMBDA scored : scored.pillarRatePercentiles.assembly),
   TotalOf(LAMBDA scored : scored.pillarRatePercentiles.sterilize)}

ScoreTotals ==
  {TotalOf(LAMBDA scored : scored.scores.productivity),
   TotalOf(LAMBDA scored : scored.scores.quality)}

(* total differs from 50 * n by less than n * 2^-43 *)
WithinRounding(total, n) ==
  LET difference == ExactSum(total, Negated(Double(50 * n)))
  IN  Lt64([difference EXCEPT !.neg = FALSE],
           Canonical(FALSE, BitsOf(n), 0 - 43))

(* the same percentile in exact arithmetic *)
ExactPercentileTotal(group, key, higherBetter) ==
  LET cohort == probe[1]
      sorted == sortedValuesOf(cohort, group, key)
      percentile(i) ==
        percentileFromSorted(cohort[i][group][key], sorted, higherBetter)
      RECURSIVE total(_)
      total(i) == IF i = 0 THEN Num(0) ELSE Add(total(i - 1), percentile(i))
  IN  total(Len(cohort))

=============================================================================
